---- MODULE Spec2Model ----
(***************************************************************************)
(* A model of the ICDA prototype: the Router of icda/router.py and the     *)
(* single-file application of main.py, the AI clients of icda/nova.py and  *)
(* icda/agents/nova_agent.py, the data sources of icda/datasource.py and   *)
(* the IndexManager of icda/index_manager.py.                              *)
(*                                                                         *)
(* The code is asyncio code: the statements between two awaits run without *)
(* interleaving, so a handler is one action per stretch of code between    *)
(* its awaits, and a handler without awaits on its path is one action.     *)
(***************************************************************************)
EXTENDS Integers, Sequences, FiniteSets, TLC

VARIABLES
    app,        \* which application runs: "icda" (icda.router) or "main" (main.py)
    cache,      \* the cache: key -> cached response text, Null when absent
    store,      \* the session store: session id -> saved messages
    available,  \* NovaClient.available / BedrockClient.available
    hasOrch,    \* NovaClient.orchestrator is not None
    req,        \* per request slot: position and locals of one Router.route call
    ncalls,     \* number of requests started so far
    agentAvail, \* NovaAgent._available
    nova,       \* the NovaAgent.generate or NovaClient.query call that just ran
    sourceKind, \* the DataSource class in use: "json", "postgresql", "mongodb"
    source,     \* what the file or database holds
    heap,       \* the customer list objects: list id -> records
    ds,         \* the fields of the DataSource (of CustomerData in main.py)
    idx,        \* the indexes the IndexManager rebuilds
    im,         \* the fields of the IndexManager and its lock
    proc,       \* per coroutine: its position in load, reload or reindex_all
    read,       \* the search that just ran
    used,       \* the calls and source changes made so far
    pure,       \* the call of a pure function of the agents that just ran
    watcher,    \* the fields of the DataSourceWatcher
    loops,      \* per task created by start: its position in _watch_loop
    pipeline    \* the request in the Query Orchestrator

routerVars == <<app, cache, store, available, hasOrch, req, ncalls>>

novaVars == <<agentAvail, nova>>

dataVars == <<sourceKind, source, heap, ds, idx, im, proc, read, used>>

agentVars == <<pure>>

watchVars == <<watcher, loops>>

orchVars == <<pipeline>>

restVars == <<agentVars, watchVars, orchVars>>

(***************************************************************************)
(* Bounds.                                                                 *)
(***************************************************************************)
\* number of requests started in one behaviour
MaxCalls == 2

\* the request slots: two requests may be in flight at once
Reqs == {"r1", "r2"}

\* the session ids a caller supplies; an id not yet in the store (and the
\* session_id=None of a first request) yields a fresh empty session
SessionIds == {"s1", "s2"}

(***************************************************************************)
(* Values.                                                                 *)
(***************************************************************************)
\* Python's None for a text
Null == <<>>

\* A text is a sequence of tokens: a run of letters, a run of digits, "-", or
\* whitespace (" " is one blank, "  " a longer run of whitespace).
Spaces == {" ", "  "}

IsSpace(tok) == tok \in Spaces

\* str.lower() on a token; the tokens not listed are lower case already
Lower(tok) ==
    CASE tok = "Find" -> "find"
      [] tok = "CRID" -> "crid"
      [] tok = "Nevada" -> "nevada"
      [] tok = "DC" -> "dc"
      [] tok = "XX" -> "xx"
      [] tok = "NV" -> "nv"
      [] OTHER -> tok

RECURSIVE LStrip(_)
LStrip(s) == IF s # <<>> /\ IsSpace(Head(s)) THEN LStrip(Tail(s)) ELSE s

RECURSIVE RStrip(_)
RStrip(s) ==
    IF s # <<>> /\ IsSpace(s[Len(s)]) THEN RStrip(SubSeq(s, 1, Len(s) - 1)) ELSE s

\* str.strip()
Strip(s) == LStrip(RStrip(s))

\* str.lower()
LowerText(s) == [i \in 1..Len(s) |-> Lower(s[i])]

\* the queries the requests of the routing model carry
RouteQueries == {<<"weather", " ", "ssn">>, <<"find">>, <<"Find", " ">>}

\* a key made without lower-casing the text
MakeKey_caseSensitive(q) == Strip(q)

\* Cache.make_key: a hash of the lowercased, stripped text; the hash is
\* modelled by the text it is taken of (no collisions)
MakeKey(q) == Strip(LowerText(q))

Keys == {MakeKey(Strip(q)) : q \in RouteQueries}

\* Guardrails.BLOCKED_PATTERNS, in order: the word whose presence blocks, and
\* the message
BLOCKED_PATTERNS ==
    << <<"ssn", "SSN not accessible">>,
       <<"password", "Credentials not accessible">>,
       <<"weather", "I only help with customer data queries">> >>

HasWord(q, w) == \E i \in 1..Len(q) : Lower(q[i]) = w

\* Guardrails.check: the message of the first pattern found in the lowercased
\* query, Null when none matches
GuardrailsCheck(q) ==
    LET hits == {i \in 1..Len(BLOCKED_PATTERNS) : HasWord(q, BLOCKED_PATTERNS[i][1])}
    IN  IF hits = {} THEN Null
        ELSE <<BLOCKED_PATTERNS[CHOOSE i \in hits : \A j \in hits : i <= j][2]>>

\* the tools of the DATABASE route
Tools == {"lookup_crid", "search_customers"}

\* an idle request slot
IdleReq ==
    [pc |-> "idle", q |-> Null, bypass |-> FALSE, sid |-> "s1",
     session |-> <<>>, prior |-> 0, key |-> Null, route |-> "none",
     tool |-> "none", response |-> Null, dbres |-> "none",
     calls |-> {}, resp |-> [none |-> TRUE], fault |-> "none"]

\* Router._response
Response(q, response, route, success, cached, blocked, tool, sid) ==
    [success |-> success, query |-> q, response |-> response, route |-> route,
     cached |-> cached, blocked |-> blocked, tool |-> tool, session_id |-> sid]

\* SessionManager.get: the saved session, or a fresh empty one
SessionsGet(sid) == store[sid]

\* Session.add_message
AddMessage(session, role, text) == Append(session, <<role, text>>)

\* a router whose guardrail result is ignored
RouteBlocked_ignored(q) == FALSE

\* the condition of the guardrail short circuit (router.py line 38, main.py
\* line 262)
RouteBlocked(q) == GuardrailsCheck(q) # Null

\* a router that reads the cache whatever the session holds
CacheConsulted_anySession(bypass, session) == ~bypass

\* the condition under which the cache is read (router.py line 43)
CacheConsulted(bypass, session) == ~bypass /\ session = <<>>

\* a router that caches every response
ShouldCache_always(session) == TRUE

\* the condition under which the response is cached (router.py lines 62, 102)
ShouldCache(session) == Len(session) <= 2

\* a router that uses the tool's result whether or not it succeeded
DbAnswerUsed_always(success) == TRUE

\* the condition under which the database answer is used (router.py line 55)
DbAnswerUsed(success) == success

\* a caller that uses the AI result whether or not it succeeded
AiAnswerUsed_always(out) == TRUE

\* the condition under which the AI result is used: `if result["success"]`
\* (router.py line 96, main.py line 272)
AiAnswerUsed(out) == out = "ok"

\* what a database tool or a tool of the AI client reads when it runs: the
\* cities of the records of the data source's indexes
DataSeen == [i \in 1..Len(ds.name_index) |-> ds.name_index[i][2].city]

\* Router._format_db_result, by the tool, the query it was run for and the
\* records the tool read
FormatDbResult(tool, q) == <<"db", tool>> \o q \o DataSeen

\* the response of nova.query, by the query and the records its tools read
AiResponse(q) == <<"ai">> \o q \o DataSeen

Set(r, rec) == req' = [req EXCEPT ![r] = rec]

(***************************************************************************)
(* Router.route                                                            *)
(***************************************************************************)
\* a slot is free when it holds no request in flight; a new request takes the
\* first free slot (the slots are names only)
Free(r) == req[r].pc \in {"idle", "done", "raised", "cancelled"}

FirstFree(r) == Free(r) /\ (r = "r2" => ~Free("r1"))

\* the session ids are names only: the first request's is "s1"
CallerSessions == IF ncalls = 0 THEN {"s1"} ELSE SessionIds

\* route is called: q = query.strip(), then await sessions.get(session_id)
RouteCall(r) ==
    /\ app = "icda"
    /\ FirstFree(r)
    /\ ncalls < MaxCalls
    /\ \E query \in RouteQueries, bypass \in BOOLEAN, sid \in CallerSessions :
         Set(r, [IdleReq EXCEPT !.pc = "s_get", !.q = Strip(query),
                                !.bypass = bypass, !.sid = sid])
    /\ ncalls' = ncalls + 1
    /\ UNCHANGED <<app, cache, store, available, hasOrch>>

\* sessions.get returns; guardrails; the cache key; up to await cache.get
RouteGuard(r) ==
    LET c == req[r]
        session == SessionsGet(c.sid)
        got == [c EXCEPT !.session = session, !.prior = Len(session)]
    IN  /\ c.pc = "s_get"
        /\ IF RouteBlocked(c.q)
           THEN Set(r, [got EXCEPT !.pc = "done",
                    !.resp = Response(c.q, GuardrailsCheck(c.q), "cache_hit",
                                      TRUE, FALSE, TRUE, "none", c.sid)])
           ELSE IF CacheConsulted(c.bypass, session)
           THEN Set(r, [got EXCEPT !.pc = "cache_get", !.key = MakeKey(c.q),
                                   !.calls = @ \cup {"cache_get"}])
           ELSE Set(r, [got EXCEPT !.pc = "find_route", !.key = MakeKey(c.q),
                                   !.calls = @ \cup {"find_route"}])
        /\ UNCHANGED <<app, cache, store, available, hasOrch, ncalls>>

\* Cache.get: the entry, unless it is absent or its time to live has run out
\* (an expired entry is deleted by the read)
CacheGet(key, expired) == IF expired THEN Null ELSE cache[key]

\* cache.get returns: a hit is returned, a miss goes on to await find_route
RouteCacheGot(r) ==
    LET c == req[r]
    IN  /\ c.pc = "cache_get"
        /\ \E expired \in BOOLEAN :
             LET hit == CacheGet(c.key, expired)
             IN  /\ expired => cache[c.key] # Null
                 /\ cache' = [cache EXCEPT ![c.key] = hit]
                 /\ IF hit # Null
                    THEN Set(r, [c EXCEPT !.pc = "done",
                             !.resp = Response(c.q, hit, "cache_hit", TRUE, TRUE,
                                               FALSE, "none", c.sid)])
                    ELSE Set(r, [c EXCEPT !.pc = "find_route",
                                          !.calls = @ \cup {"find_route"}])
        /\ UNCHANGED <<app, store, available, hasOrch, ncalls>>

\* the code after a failed or skipped database tool, up to the next await
ToNova(c) ==
    IF hasOrch
    THEN [c EXCEPT !.pc = "nova", !.route = "nova", !.calls = @ \cup {"nova"}]
    ELSE [c EXCEPT !.pc = "rag", !.route = "nova", !.calls = @ \cup {"rag"}]

\* find_route returns a route and a tool; on DATABASE the tool is executed
RouteRouted(r) ==
    LET c == req[r]
    IN  /\ c.pc = "find_route"
        /\ \E rt \in {"database", "nova"}, tool \in Tools, ok \in BOOLEAN :
             IF rt = "database"
             THEN LET d == [c EXCEPT !.dbres = IF ok THEN "ok" ELSE "fail",
                                     !.calls = @ \cup {"db"}]
                  IN  IF DbAnswerUsed(ok)
                      THEN LET response == FormatDbResult(tool, c.q)
                               s1 == AddMessage(c.session, "user", c.q)
                               s2 == AddMessage(s1, "assistant", response)
                           IN  Set(r, [d EXCEPT !.pc = "save",
                                        !.route = "database", !.tool = tool,
                                        !.response = response, !.session = s2,
                                        !.calls = @ \cup {"add"}])
                      ELSE Set(r, ToNova(d))
             ELSE /\ ok
                  /\ tool = "lookup_crid"
                  /\ Set(r, ToNova(c))
        /\ UNCHANGED <<app, cache, store, available, hasOrch, ncalls>>

\* search_customers_semantic returns (simple mode only): await nova.query
RouteRagDone(r) ==
    LET c == req[r]
    IN  /\ c.pc = "rag"
        /\ Set(r, [c EXCEPT !.pc = "nova", !.calls = @ \cup {"nova"}])
        /\ UNCHANGED <<app, cache, store, available, hasOrch, ncalls>>

\* NovaClient.query as the Router sees it: a failure when unavailable, else
\* the AI capability is invoked and succeeds, fails or fails with an access
\* error (which clears available)
NovaOutcomes == IF available THEN {"ok", "error", "access"} ELSE {"unavailable"}

\* nova.query returns
RouteNovaDone(r) ==
    LET c == req[r]
    IN  /\ c.pc = "nova"
        /\ \E out \in NovaOutcomes :
             /\ available' = (available /\ out # "access")
             /\ IF AiAnswerUsed(out)
                THEN LET response == AiResponse(c.q)
                         s1 == AddMessage(c.session, "user", c.q)
                         s2 == AddMessage(s1, "assistant", response)
                     IN  Set(r, [c EXCEPT !.pc = "save", !.response = response,
                                  !.session = s2,
                                  !.calls = @ \cup {"ai", "add"}])
                ELSE Set(r, [c EXCEPT !.pc = "done",
                         !.calls = @ \cup (IF out = "unavailable" THEN {} ELSE {"ai"}),
                         !.resp = Response(c.q, <<"error", out>>, "nova", FALSE,
                                           FALSE, FALSE, "none", c.sid)])
        /\ UNCHANGED <<app, cache, store, hasOrch, ncalls>>

\* the answer of a request that produced a response
Answer(c) ==
    Response(c.q, c.response, c.route, TRUE, FALSE, FALSE, c.tool, c.sid)

\* sessions.save returns: the session is stored; cache if still single-turn
RouteSaved(r) ==
    LET c == req[r]
    IN  /\ c.pc = "save"
        /\ store' = [store EXCEPT ![c.sid] = c.session]
        /\ IF ShouldCache(c.session)
           THEN Set(r, [c EXCEPT !.pc = "cache_set",
                                 !.calls = @ \cup {"save"}])
           ELSE Set(r, [c EXCEPT !.pc = "done", !.calls = @ \cup {"save"},
                                 !.resp = Answer([c EXCEPT !.calls = @ \cup {"save"}])])
        /\ UNCHANGED <<app, cache, available, hasOrch, ncalls>>

\* cache.set returns
RouteCacheSet(r) ==
    LET c == req[r]
    IN  /\ c.pc = "cache_set"
        /\ cache' = [cache EXCEPT ![c.key] = c.response]
        /\ Set(r, [c EXCEPT !.pc = "done", !.calls = @ \cup {"cache_set"},
                             !.resp = Answer(c)])
        /\ UNCHANGED <<app, store, available, hasOrch, ncalls>>

\* the awaits of route on the session store, the cache and the semantic
\* router: route wraps none of them in a try (router.py lines 34, 44, 49, 60,
\* 63, 79, 100, 103); the database tool runs in the stretch after find_route
Awaits == {"s_get", "cache_get", "find_route", "rag", "save", "cache_set"}

\* the collaborator awaited raises (after find_route: the semantic router or
\* the database tool): no handler in route, the exception leaves route and
\* no response object is built; the failed call itself wrote nothing
RouteRaised(r) ==
    LET c == req[r]
    IN  /\ c.pc \in Awaits
        /\ Set(r, [c EXCEPT !.pc = "raised", !.fault = c.pc])
        /\ UNCHANGED <<app, cache, store, available, hasOrch, ncalls>>

\* the task that runs route is cancelled while it waits at an await:
\* CancelledError is raised there and leaves route (the `except Exception` of
\* NovaClient does not catch it); the call awaited wrote nothing, what the
\* request wrote before stays
RouteCancelled(r) ==
    LET c == req[r]
    IN  /\ c.pc \in Awaits \cup {"nova"}
        /\ Set(r, [c EXCEPT !.pc = "cancelled", !.fault = c.pc])
        /\ UNCHANGED <<app, cache, store, available, hasOrch, ncalls>>

(***************************************************************************)
(* main.py: process_query, which has no await: one action                  *)
(***************************************************************************)
\* BedrockClient.query as process_query sees it
BedrockOutcomes == IF available THEN {"ok", "error"} ELSE {"unavailable"}

ProcessQuery(r) ==
    /\ app = "main"
    /\ FirstFree(r)
    /\ ncalls < MaxCalls
    /\ ncalls' = ncalls + 1
    /\ \E text \in RouteQueries, bypass \in BOOLEAN, out \in BedrockOutcomes :
         LET query == Strip(text)
             key == MakeKey(query)
             c == [IdleReq EXCEPT !.pc = "done", !.q = query, !.bypass = bypass,
                                  !.key = key]
         IN  IF RouteBlocked(query)
             THEN /\ Set(r, [c EXCEPT !.resp = Response(query,
                        GuardrailsCheck(query), "none", FALSE, FALSE, TRUE,
                        "none", "s1")])
                  /\ UNCHANGED cache
             ELSE IF ~bypass /\ cache[key] # Null
             THEN /\ Set(r, [c EXCEPT !.calls = {"cache_get"},
                        !.resp = Response(query, cache[key], "none", TRUE, TRUE,
                                          FALSE, "none", "s1")])
                  /\ UNCHANGED cache
             ELSE LET calls == (IF bypass THEN {} ELSE {"cache_get"})
                               \cup (IF out = "unavailable" THEN {} ELSE {"ai"})
                  IN  IF AiAnswerUsed(out)
                      THEN /\ cache' = [cache EXCEPT ![key] = <<"ai">> \o query]
                           /\ Set(r, [c EXCEPT !.calls = calls \cup {"cache_set"},
                                !.response = <<"ai">> \o query,
                                !.resp = Response(query, <<"ai">> \o query,
                                    "none", TRUE, FALSE, FALSE, "none", "s1")])
                      ELSE /\ UNCHANGED cache
                           /\ Set(r, [c EXCEPT !.calls = calls,
                                !.resp = Response(query, <<"error", out>>,
                                    "none", FALSE, FALSE, FALSE, "none", "s1")])
    /\ UNCHANGED <<app, store, available, hasOrch>>

RouterInit ==
    /\ app \in {"icda", "main"}
    /\ cache = [k \in Keys |-> Null]
    /\ store = [s \in SessionIds |-> <<>>]
    /\ available \in BOOLEAN
    /\ hasOrch \in BOOLEAN
    /\ req = [r \in Reqs |-> IdleReq]
    /\ ncalls = 0

\* no request, an empty cache and no session: the router in the specifications
\* of the other components
NoRequests ==
    /\ cache = [k \in Keys |-> Null]
    /\ store = [s \in SessionIds |-> <<>>]
    /\ req = [r \in Reqs |-> IdleReq]
    /\ ncalls = 0

(***************************************************************************)
(* The AI clients: NovaAgent.generate (the Response Generator) and         *)
(* NovaClient.query. The AI capability is called synchronously: there is   *)
(* no await between a call's availability test and its return, so each     *)
(* call is one action.                                                     *)
(***************************************************************************)
\* most content blocks in one message of the AI capability
MaxBlocks == 2

\* most records in a SearchResult
MaxResults == 6

\* the records shown by the templated response (results[:5])
FALLBACK_SHOWN == 5

Min(a, b) == IF a < b THEN a ELSE b

\* a content block: a text (turn 1 says "a", the follow-up turn "b", either may
\* be empty) or a tool request
Blocks(t) ==
    {<<"text", "">>, <<"text", t>>, <<"toolUse", "lookup_crid">>,
     <<"toolUse", "search_customers">>}

SeqsUpTo(S, n) == UNION {[1..k -> S] : k \in 0..n}

\* the messages of a ClientError
ErrorMsgs ==
    {<<"Access", "Denied">>, <<"access", "denied">>, <<"Invalid", "Credentials">>,
     <<"Throttled">>}

NoOutcome == [kind |-> "none", content |-> <<>>, msg |-> <<>>]

\* what one converse call does: returns content, raises ClientError(msg), or
\* raises another exception
Outcomes(t) ==
    {[NoOutcome EXCEPT !.kind = "content", !.content = c] :
        c \in SeqsUpTo(Blocks(t), MaxBlocks)}
    \cup {[NoOutcome EXCEPT !.kind = "client_error", !.msg = m] : m \in ErrorMsgs}
    \cup {[NoOutcome EXCEPT !.kind = "exception"]}

\* str.lower() on the words of an error message
LowerMsg(m) ==
    [i \in 1..Len(m) |->
        CASE m[i] = "Access" -> "access"
          [] m[i] = "Denied" -> "denied"
          [] m[i] = "Invalid" -> "invalid"
          [] m[i] = "Credentials" -> "credentials"
          [] m[i] = "Throttled" -> "throttled"
          [] OTHER -> m[i]]

InMsg(w, m) == \E i \in 1..Len(m) : m[i] = w

\* an access test that does not lower-case the message
IsAccessError_caseSensitive(m) == InMsg("Access", m) \/ InMsg("credentials", m)

\* "Access" in error_msg or "credentials" in error_msg.lower()
IsAccessError(m) == InMsg("Access", m) \/ InMsg("credentials", LowerMsg(m))

\* next((b["text"] for b in content if "text" in b), None); None and the empty
\* text are both falsy and both are ""
FirstText(content) ==
    LET texts == {i \in 1..Len(content) : content[i][1] = "text"}
    IN  IF texts = {} THEN ""
        ELSE content[CHOOSE i \in texts : \A j \in texts : i <= j][2]

\* a generator that returns whatever text it extracted
Truthy_always(text) == TRUE

\* `if text:`, `if out := ...:`
Truthy(text) == text # ""

\* [b["toolUse"] for b in content if "toolUse" in b], by name
ToolUses(content) ==
    LET F[i \in 0..Len(content)] ==
            IF i = 0 THEN <<>>
            ELSE IF content[i][1] = "toolUse" THEN Append(F[i - 1], content[i][2])
            ELSE F[i - 1]
    IN  F[Len(content)]

\* a response text: the AI's words, the sentinel, the static message, or the
\* template over total, the records shown and the "and N more" line (0: none)
Text(kind, text, total, shown, more) ==
    [kind |-> kind, text |-> text, total |-> total, shown |-> shown, more |-> more]

AiText(t) == Text("ai", t, 0, <<>>, 0)

Sentinel == Text("sentinel", "I couldn't generate a response.", 0, <<>>, 0)

StaticUnavailable ==
    Text("static",
         "AI features are not available. Please use direct search or autocomplete endpoints.",
         0, <<>>, 0)

NoText == Text("none", "", 0, <<>>, 0)

\* a template that lists every record
FallbackShown_all(results) == results

\* search_result.results[:5]
FallbackShown(results) == SubSeq(results, 1, Min(FALLBACK_SHOWN, Len(results)))

\* a result of generate or query
Result(text, tools_used, model_used, success, error) ==
    [response_text |-> text, tools_used |-> tools_used, model_used |-> model_used,
     success |-> success, error |-> error]

\* NovaAgent._fallback_response
FallbackResponse(results, total) ==
    Result(IF results # <<>>
           THEN Text("fallback", "Found", total, FallbackShown(results),
                     IF total > FALLBACK_SHOWN THEN total - FALLBACK_SHOWN ELSE 0)
           ELSE StaticUnavailable,
           <<>>, "fallback", TRUE, "none")

NoBehaviour == [pre |-> FALSE, t1 |-> NoOutcome, exec |-> FALSE, t2 |-> NoOutcome]

\* what the environment does during one call: pre, building the request
\* raises; t1, the first converse; exec, a requested tool raises; t2, the
\* follow-up converse. The follow-up exists exactly when turn 1 requested a
\* tool and the tool ran.
Behaviours ==
    {[NoBehaviour EXCEPT !.pre = TRUE]}
    \cup {[NoBehaviour EXCEPT !.t1 = t1] :
            t1 \in {o \in Outcomes("a") : ToolUses(o.content) = <<>>}}
    \cup {[NoBehaviour EXCEPT !.t1 = t1, !.exec = TRUE] :
            t1 \in {o \in Outcomes("a") : ToolUses(o.content) # <<>>}}
    \cup {[NoBehaviour EXCEPT !.t1 = t1, !.t2 = t2] :
            t1 \in {o \in Outcomes("a") : ToolUses(o.content) # <<>>},
            t2 \in Outcomes("b")}

\* the outcome of a _converse: what it raised or returned, ai the number of
\* invocations of the AI capability, log the calls it made in order: "ai" for
\* a converse, the tool's name for an execution through the registry
Conversed(raised, msg, text, tools_used, ai, log) ==
    [raised |-> raised, msg |-> msg, text |-> text, tools_used |-> tools_used,
     ai |-> ai, log |-> log]

\* a loop that executes only the first requested tool
Executions_firstOnly(tool_uses) == <<tool_uses[1]>>

\* `for tool_use in tool_uses:` ... execute(tool_name, tool_input)
Executions(tool_uses) == tool_uses

\* NovaAgent._converse
AgentConverse(b) ==
    LET content == b.t1.content
        tool_uses == ToolUses(content)
        first == FirstText(content)
        follow == FirstText(b.t2.content)
        calls == IF tool_uses = <<>> THEN <<"ai">>
                 ELSE <<"ai">> \o Executions(tool_uses) \o <<"ai">>
    IN  IF b.t1.kind # "content"
        THEN Conversed(b.t1.kind, b.t1.msg, NoText, <<>>, 1, <<"ai">>)
        ELSE IF tool_uses # <<>> /\ b.exec
        THEN Conversed("exception", <<>>, NoText, <<>>, 1, <<"ai", tool_uses[1]>>)
        ELSE IF tool_uses # <<>> /\ b.t2.kind # "content"
        THEN Conversed(b.t2.kind, b.t2.msg, NoText, <<>>, 2, calls)
        ELSE IF tool_uses # <<>> /\ Truthy(follow)
        THEN Conversed("none", <<>>, AiText(follow), tool_uses, 2, calls)
        ELSE IF Truthy(first)
        THEN Conversed("none", <<>>, AiText(first), tool_uses, 
             IF tool_uses = <<>> THEN 1 ELSE 2, calls)
        ELSE Conversed("none", <<>>, Sentinel, tool_uses, 
             IF tool_uses = <<>> THEN 1 ELSE 2, calls)

\* no call yet
NoCall ==
    [who |-> "none", before |-> TRUE, results |-> <<>>, total |-> 0,
     beh |-> NoBehaviour, orch |-> "none", raised |-> "none", msg |-> <<>>,
     ai |-> 0, log |-> <<>>, out |-> Result(NoText, <<>>, "none", FALSE, "none")]

\* the SearchResults: records 1..n, total_matches n or, a truncated page, n + 1
SearchInputs ==
    UNION {{[results |-> [i \in 1..n |-> i], total |-> t] : t \in {n, n + 1}} :
            n \in 0..MaxResults}

\* NovaAgent.generate, called when no other call is running (there is no await
\* inside a call). The call record keeps the search result where the answer is
\* built from it.
Generate ==
    /\ nova = NoCall
    /\ \E in \in SearchInputs, b \in Behaviours :
        LET call == [NoCall EXCEPT !.who = "generate", !.before = agentAvail]
            failed == [call EXCEPT !.results = in.results, !.total = in.total,
                           !.out = FallbackResponse(in.results, in.total)]
            conv == AgentConverse(b)
        IN  /\ IF ~agentAvail
               THEN /\ b = [NoBehaviour EXCEPT !.pre = TRUE]
                    /\ nova' = failed
                    /\ UNCHANGED agentAvail
               ELSE IF b.pre
               THEN /\ nova' = [failed EXCEPT !.beh = b, !.raised = "exception"]
                    /\ UNCHANGED agentAvail
               ELSE IF conv.raised = "client_error"
               THEN /\ nova' = [failed EXCEPT !.beh = b, !.ai = conv.ai,
                                   !.log = conv.log,
                                   !.raised = conv.raised, !.msg = conv.msg]
                    /\ agentAvail' = ~IsAccessError(conv.msg)
               ELSE IF conv.raised = "exception"
               THEN /\ nova' = [failed EXCEPT !.beh = b, !.ai = conv.ai,
                                   !.log = conv.log,
                                   !.raised = conv.raised]
                    /\ UNCHANGED agentAvail
               ELSE /\ in.results = <<>> /\ in.total = 0
                    /\ nova' = [call EXCEPT !.beh = b, !.ai = conv.ai,
                                   !.log = conv.log,
                                   !.out = Result(conv.text, conv.tools_used,
                                                  "nova", TRUE, "none")]
                    /\ UNCHANGED agentAvail
            /\ UNCHANGED <<available, hasOrch>>

\* NovaClient._query_simple after its converse calls
SimpleConverse(b) ==
    LET content == b.t1.content
        tool_uses == ToolUses(content)
        first == FirstText(content)
        follow == FirstText(b.t2.content)
        calls == IF tool_uses = <<>> THEN <<"ai">>
                 ELSE <<"ai">> \o Executions(tool_uses) \o <<"ai">>
    IN  IF b.t1.kind # "content"
        THEN Conversed(b.t1.kind, b.t1.msg, NoText, <<>>, 1, <<"ai">>)
        ELSE IF tool_uses # <<>> /\ b.exec
        THEN Conversed("exception", <<>>, NoText, <<>>, 1, <<"ai", tool_uses[1]>>)
        ELSE IF tool_uses # <<>> /\ b.t2.kind # "content"
        THEN Conversed(b.t2.kind, b.t2.msg, NoText, <<>>, 2, calls)
        ELSE IF tool_uses # <<>> /\ Truthy(follow)
        THEN Conversed("none", <<>>, AiText(follow), tool_uses, 2, calls)
        ELSE IF Truthy(first)
        THEN Conversed("none", <<>>, AiText(first), <<>>, 
             IF tool_uses = <<>> THEN 1 ELSE 2, calls)
        ELSE Conversed("none", <<>>, NoText, <<>>, 
             IF tool_uses = <<>> THEN 1 ELSE 2, calls)

QueryFailed(error) == Result(NoText, <<>>, "none", FALSE, error)

\* NovaClient.query: unavailable; the orchestrator's result; or, without an
\* orchestrator or when it raises, _query_simple
Query ==
    /\ nova = NoCall
    /\ \E orch \in {"none", "result", "failed", "raises"}, b \in Behaviours :
        LET call == [NoCall EXCEPT !.who = "query", !.before = available]
            conv == SimpleConverse(b)
            simple == [call EXCEPT !.orch = orch, !.beh = b, !.ai = conv.ai,
                                   !.log = conv.log,
                           !.raised = conv.raised, !.msg = conv.msg]
        IN  /\ IF ~available
               THEN /\ orch = "none" /\ b = [NoBehaviour EXCEPT !.pre = TRUE]
                    /\ nova' = [call EXCEPT !.out = QueryFailed("AI features not available")]
                    /\ UNCHANGED available
               ELSE IF hasOrch /\ orch \in {"result", "failed"}
               THEN /\ b = [NoBehaviour EXCEPT !.pre = TRUE]
                    /\ nova' = [call EXCEPT !.orch = orch,
                                   !.out = IF orch = "result"
                                           THEN Result(Text("pipeline", "answer", 0, <<>>, 0),
                                                       <<>>, "none", TRUE, "none")
                                           ELSE QueryFailed("pipeline")]
                    /\ UNCHANGED available
               ELSE /\ orch = (IF hasOrch THEN "raises" ELSE "none")
                    /\ ~b.pre
                    /\ IF conv.raised = "client_error" /\ IsAccessError(conv.msg)
                       THEN /\ available' = FALSE
                            /\ nova' = [simple EXCEPT !.out = QueryFailed("AWS access denied")]
                       ELSE IF conv.raised = "client_error"
                       THEN /\ UNCHANGED available
                            /\ nova' = [simple EXCEPT !.out = QueryFailed("Nova: error_msg")]
                       ELSE IF conv.raised = "exception"
                       THEN /\ UNCHANGED available
                            /\ nova' = [simple EXCEPT !.out = QueryFailed("str(e)")]
                       ELSE IF conv.text = NoText
                       THEN /\ UNCHANGED available
                            /\ nova' = [simple EXCEPT !.out = QueryFailed("No response")]
                       ELSE /\ UNCHANGED available
                            /\ nova' = [simple EXCEPT
                                   !.out = Result(conv.text, conv.tools_used,
                                                  "none", TRUE, "none")]
            /\ UNCHANGED <<agentAvail, hasOrch>>

\* the caller takes the result of the call
Return ==
    /\ nova # NoCall
    /\ nova' = NoCall
    /\ UNCHANGED <<agentAvail, available, hasOrch>>

\* both clients connected, no call yet
NovaQuiet ==
    /\ agentAvail = TRUE
    /\ nova = NoCall

(***************************************************************************)
(* The data source (icda.datasource), the index manager                    *)
(* (icda.index_manager) and main.py's CustomerData. A load, a reload or a  *)
(* re-index is a process: it runs from one await to the next in one        *)
(* action, and readers (search) run between those actions.                 *)
(***************************************************************************)
\* load, reload and reindex_all calls in one behaviour
MaxOps == 2

\* changes of the file or database in one behaviour
MaxChanges == 1

\* the coroutines that load, reload or re-index
Procs == {"p1", "p2"}

\* the list objects alive at once: self._customers, the `customers` argument
\* of each re-index, and the list being created
ListIds == 1..(Cardinality(Procs) + 2)

Customer(crid, name, city, address, state) ==
    [crid |-> crid, name |-> name, city |-> city, address |-> address,
     state |-> state]

CustA == Customer("CRID-000001", "Bob", "Reno", "1 Elm St", "NV")

CustB == Customer("CRID-000002", "alice", "Austin", "", "TX")

\* the first customer after a move
CustC == Customer("CRID-000001", "Bob", "Fresno", "2 Oak Ave", "CA")

\* the contents the source can have
Datasets == {<<CustA, CustB>>, <<CustC>>}

\* the customers main.py falls back to
MainDefaults ==
    <<Customer("CRID-000001", "John Smith", "Las Vegas", "123 Main St", "NV"),
      Customer("CRID-000002", "Jane Doe", "Reno", "456 Oak Ave", "NV")>>

\* the state filters of the searches
SearchStates == {"nv", "CA", "FL"}

\* str.upper() on a state code
Upper(s) == IF s = "nv" THEN "NV" ELSE s

\* str.lower() on a field value
LowerValue(v) ==
    CASE v = "Bob" -> "bob"
      [] v = "Reno" -> "reno"
      [] v = "Austin" -> "austin"
      [] v = "Fresno" -> "fresno"
      [] v = "1 Elm St" -> "1 elm st"
      [] v = "2 Oak Ave" -> "2 oak ave"
      [] v = "Alice" -> "alice"
      [] v = "AUSTIN" -> "austin"
      [] v = "R" -> "r"
      [] OTHER -> v

\* the lowercased field values, and the prefixes completed, in string order
ValueOrder ==
    <<"1 elm st", "2 oak ave", "a", "al", "alice", "austin", "bob", "fresno",
      "r", "reno", "z">>

Rank(v) == CHOOSE i \in 1..Len(ValueOrder) : ValueOrder[i] = v

Range(s) == {s[i] : i \in 1..Len(s)}

\* a dict without keys
EmptyMap == [k \in {} |-> 0]

\* sorted(entries, key=lambda x: x[0]): stable
SortedByKey(entries) ==
    LET Insert(t, e) ==
            LET k == Cardinality({i \in 1..Len(t) : Rank(t[i][1]) <= Rank(e[1])})
            IN  SubSeq(t, 1, k) \o <<e>> \o SubSeq(t, k + 1, Len(t))
        F[i \in 0..Len(entries)] ==
            IF i = 0 THEN <<>> ELSE Insert(F[i - 1], entries[i])
    IN  F[Len(entries)]

\* an autocomplete index of _build_indexes over one field
AutoIndex(list, field) ==
    LET with == SelectSeq(list, LAMBDA c : c[field] # "")
    IN  SortedByKey([i \in 1..Len(with) |-> <<LowerValue(with[i][field]), with[i]>>])

\* {c["crid"]: c for c in customers}: the last record of a CRID wins
ByCrid(list) ==
    [k \in {list[i].crid : i \in 1..Len(list)} |->
        list[CHOOSE i \in 1..Len(list) :
                /\ list[i].crid = k
                /\ \A j \in 1..Len(list) : list[j].crid = k => j <= i]]

\* the state index of _build_indexes
ByState(list) ==
    [s \in {Upper(list[i].state) : i \in {j \in 1..Len(list) : list[j].state # ""}} |->
        SelectSeq(list, LAMBDA c : Upper(c.state) = s)]

\* the state index of main.py's CustomerData: keyed by the state as stored
MainStateIndex(list) ==
    [s \in {list[i].state : i \in 1..Len(list)} |->
        SelectSeq(list, LAMBDA c : c.state = s)]

\* state_counts of _build_metadata
StateCounts(list) ==
    [s \in {Upper(list[i].state) : i \in {j \in 1..Len(list) : list[j].state # ""}} |->
        Cardinality({i \in 1..Len(list) : Upper(list[i].state) = s})]

\* sorted(state_counts.items(), key=count, reverse=True): the states in the
\* order of their first record, then stably by falling count
AvailableStates(list) ==
    LET counts == StateCounts(list)
        First[i \in 0..Len(list)] ==
            IF i = 0 THEN <<>>
            ELSE IF list[i].state = "" \/ Upper(list[i].state) \in Range(First[i - 1])
            THEN First[i - 1]
            ELSE Append(First[i - 1], Upper(list[i].state))
        order == First[Len(list)]
        Insert(t, e) ==
            LET k == Cardinality({i \in 1..Len(t) : counts[t[i]] >= counts[e]})
            IN  SubSeq(t, 1, k) \o <<e>> \o SubSeq(t, k + 1, Len(t))
        F[i \in 0..Len(order)] ==
            IF i = 0 THEN <<>> ELSE Insert(F[i - 1], order[i])
    IN  F[Len(order)]

\* DataSource._build_metadata, with the source_type the caller then sets
BuildMetadata(list, source_type) ==
    [total_records |-> Len(list), available_states |-> AvailableStates(list),
     state_counts |-> StateCounts(list), source_type |-> source_type]

\* DataSource.__init__ and add_listener(index_manager); customers is the list
\* object self._customers names
NewDataSource ==
    [customers |-> 1, by_crid |-> EmptyMap, by_state |-> EmptyMap,
     address_index |-> <<>>, name_index |-> <<>>, city_index |-> <<>>,
     metadata |-> BuildMetadata(<<>>, "unknown"),
     listeners |-> <<"index_manager">>]

\* DataSource._build_indexes over the list self._customers names
BuildIndexes(d, list) ==
    [d EXCEPT !.by_crid = ByCrid(list), !.by_state = ByState(list),
              !.address_index = AutoIndex(list, "address"),
              !.name_index = AutoIndex(list, "name"),
              !.city_index = AutoIndex(list, "city")]

\* CustomerData.__init__ of main.py
NewCustomerData(list) ==
    [NewDataSource EXCEPT !.by_crid = ByCrid(list), !.by_state = MainStateIndex(list)]

\* source_type of each DataSource class
SourceType(k) ==
    CASE k = "json" -> "json_file"
      [] k = "postgresql" -> "postgresql"
      [] k = "mongodb" -> "mongodb"

\* what the file or database holds; newer: the file's mtime is above
\* _last_mtime
Source(status, data, newer) == [status |-> status, data |-> data, newer |-> newer]

Sources(k) ==
    {Source("ok", d, k = "json") : d \in Datasets}
    \cup (IF k = "json"
          THEN {Source("missing", <<>>, FALSE), Source("corrupt", <<>>, TRUE)}
          ELSE {Source("down", <<>>, FALSE)})

IdleProc == [pc |-> "idle", op |-> "none", arg |-> 0, docs |-> <<>>]

\* IndexStats()
NewStats == [addresses_indexed |-> 0, vectors_indexed |-> 0, index_errors |-> <<>>]

\* IndexManager.__init__ with its asyncio.Lock
NewIndexManager(auto_index) ==
    [auto_index |-> auto_index, locked |-> FALSE, waiters |-> <<>>, stats |-> NewStats]

\* the steps of a rebuild
Steps == {"cache", "address", "zip", "vector", "avec"}

\* the address index, ZIP database, vector index and address vector index:
\* the customers each was last built from; raises: the step of a rebuild whose
\* collaborator is broken and raises, if any
NewIndexes(raises) ==
    [address |-> <<>>, zip |-> <<>>, vector |-> <<>>, avec |-> <<>>,
     raises |-> raises]

NoRead ==
    [op |-> "none", state |-> "", success |-> FALSE, error |-> "none", total |-> 0,
     data |-> <<>>, available_states |-> <<>>, state_counts |-> EmptyMap]

\* the list objects still named by self._customers or by a re-index
Refs(prc, d) == {d.customers} \cup ({prc[p].arg : p \in Procs} \ {0})

\* a list object nothing names
NewList ==
    CHOOSE i \in ListIds :
        /\ i \notin Refs(proc, ds)
        /\ \A j \in ListIds : j \notin Refs(proc, ds) => i <= j

\* the heap without the list objects nothing names any more
Collect(h, refs) == [i \in ListIds |-> IF i \in refs THEN h[i] ELSE <<>>]

\* a lock that is always granted
CanAcquire_always == TRUE

\* asyncio.Lock.acquire without waiting: unlocked and nobody queued
CanAcquire == ~im.locked /\ im.waiters = <<>>

\* IndexManager.reindex_all(customers) up to its first await: take the lock
\* and reset the stats, or queue for the lock
ReindexAll(p, op, list) ==
    IF CanAcquire
    THEN /\ im' = [im EXCEPT !.locked = TRUE, !.stats = NewStats]
         /\ proc' = [proc EXCEPT ![p] = [IdleProc EXCEPT !.pc = "clear", !.op = op, !.arg = list]]
    ELSE /\ im' = [im EXCEPT !.waiters = Append(@, p)]
         /\ proc' = [proc EXCEPT ![p] = [IdleProc EXCEPT !.pc = "wait", !.op = op, !.arg = list]]

\* a notification that ends at the first listener that raises
Notified_untilError(listeners) ==
    {listeners[i] : i \in {j \in 1..Len(listeners) :
                              \A k \in 1..j : listeners[k] # "broken"}}

\* DataSource._notify_listeners: the listeners whose on_data_changed is
\* called; a listener that raises ("broken") is logged and the next one is
\* called
Notified(listeners) == {listeners[i] : i \in 1..Len(listeners)}

\* the end of a load: load() returns; reload() goes on to _notify_listeners,
\* and IndexManager.on_data_changed re-indexes source.customers unless
\* auto_index is off
Finish(p, op, list) ==
    IF op = "reload" /\ "index_manager" \in Notified(ds.listeners) /\ im.auto_index
    THEN ReindexAll(p, op, list)
    ELSE /\ proc' = [proc EXCEPT ![p] = IdleProc]
         /\ UNCHANGED im

\* a load that succeeded: the new list, its indexes and metadata
Loaded(p, op, data) ==
    LET new == NewList
    IN  /\ ds' = [BuildIndexes(ds, data) EXCEPT !.customers = new,
                     !.metadata = BuildMetadata(data, SourceType(sourceKind))]
        /\ Finish(p, op, new)
        /\ heap' = Collect([heap EXCEPT ![new] = data], Refs(proc', ds'))

\* a load that failed: an empty list and its metadata
LoadFailed(p, op, source_type) ==
    LET new == NewList
    IN  /\ ds' = [ds EXCEPT !.customers = new,
                     !.metadata = BuildMetadata(<<>>, source_type)]
        /\ Finish(p, op, new)
        /\ heap' = Collect([heap EXCEPT ![new] = <<>>], Refs(proc', ds'))

\* JSONFileDataSource.load
LoadJson(p, op) ==
    IF source.status = "missing"
    THEN LoadFailed(p, op, "json_file") /\ UNCHANGED source
    ELSE IF source.status = "ok"
    THEN Loaded(p, op, source.data) /\ source' = [source EXCEPT !.newer = FALSE]
    ELSE LoadFailed(p, op, "unknown") /\ UNCHANGED source

\* load(), reload() or reindex_all(source.customers) is called and runs to
\* its first await
Start(p, op) ==
    /\ app = "icda"
    /\ read = NoRead
    /\ proc[p].pc = "idle"
    /\ p = "p2" => proc["p1"].pc # "idle"
    /\ used.ops < MaxOps
    /\ used' = [used EXCEPT !.ops = @ + 1]
    /\ IF op = "reindex"
       THEN /\ ReindexAll(p, op, ds.customers)
            /\ UNCHANGED <<ds, heap, source>>
       ELSE IF sourceKind = "json" /\ op = "reload"
               /\ (source.status = "missing" \/ ~source.newer)
       THEN UNCHANGED <<ds, heap, source, proc, im>>
       ELSE IF sourceKind = "json"
       THEN LoadJson(p, op)
       ELSE IF sourceKind = "postgresql"
       THEN /\ proc' = [proc EXCEPT ![p] = [IdleProc EXCEPT !.pc = "fetch", !.op = op]]
            /\ UNCHANGED <<ds, heap, source, im>>
       ELSE LET new == NewList
            IN  /\ ds' = [ds EXCEPT !.customers = new]
                /\ proc' = [proc EXCEPT ![p] = [IdleProc EXCEPT !.pc = "cursor",
                               !.op = op, !.docs = source.data]]
                /\ heap' = Collect([heap EXCEPT ![new] = <<>>], Refs(proc', ds'))
                /\ UNCHANGED <<source, im>>
    /\ UNCHANGED <<sourceKind, idx, read>>

\* PostgreSQLDataSource.load after its fetch
Fetched(p) ==
    /\ read = NoRead
    /\ proc[p].pc = "fetch"
    /\ IF source.status = "ok"
       THEN Loaded(p, proc[p].op, source.data)
       ELSE LoadFailed(p, proc[p].op, "unknown")
    /\ UNCHANGED <<sourceKind, source, idx, read, used>>

\* MongoDBDataSource.load when its cursor delivers: a document is appended to
\* self._customers; after the last one indexes and metadata are built; an
\* error empties the list
CursorNext(p) ==
    /\ read = NoRead
    /\ proc[p].pc = "cursor"
    /\ IF source.status # "ok"
       THEN LoadFailed(p, proc[p].op, "unknown")
       ELSE LET list == IF proc[p].docs = <<>> THEN heap[ds.customers]
                        ELSE Append(heap[ds.customers], Head(proc[p].docs))
            IN  IF Len(proc[p].docs) <= 1
                THEN /\ ds' = [BuildIndexes(ds, list) EXCEPT
                                  !.metadata = BuildMetadata(list, SourceType(sourceKind))]
                     /\ Finish(p, proc[p].op, ds.customers)
                     /\ heap' = Collect([heap EXCEPT ![ds.customers] = list],
                                        Refs(proc', ds'))
                ELSE /\ heap' = [heap EXCEPT ![ds.customers] = list]
                     /\ proc' = [proc EXCEPT ![p].docs = Tail(@)]
                     /\ UNCHANGED <<ds, im>>
    /\ UNCHANGED <<sourceKind, source, idx, read, used>>

\* a queued reindex_all is given the lock its holder released
LockGranted(p) ==
    /\ read = NoRead
    /\ proc[p].pc = "wait"
    /\ ~im.locked
    /\ im.waiters # <<>> /\ Head(im.waiters) = p
    /\ im' = [im EXCEPT !.locked = TRUE, !.waiters = Tail(@), !.stats = NewStats]
    /\ proc' = [proc EXCEPT ![p].pc = "clear"]
    /\ UNCHANGED <<sourceKind, source, heap, ds, idx, read, used>>

\* a rebuild that records no error
Errors_unrecorded(errors, ok, step) == errors

\* a step that raised is recorded in stats.index_errors
Errors(errors, ok, step) == IF ok THEN errors ELSE Append(errors, step)

\* reindex_all after `await cache.clear()`: the address index and the ZIP
\* database are rebuilt, then the vector index is awaited
Cleared(p) ==
    /\ read = NoRead
    /\ proc[p].pc = "clear"
    /\ LET customers == heap[proc[p].arg]
           c_ok == idx.raises # "cache"
           a_ok == idx.raises # "address"
           z_ok == idx.raises # "zip"
       IN  /\ cache' = IF c_ok THEN [k \in DOMAIN cache |-> Null] ELSE cache
           /\ idx' = [idx EXCEPT
                 !.address = IF a_ok THEN customers ELSE @,
                 !.zip = IF z_ok THEN customers ELSE @]
           /\ im' = [im EXCEPT
                 !.stats.addresses_indexed = IF a_ok THEN Len(customers) ELSE @,
                 !.stats.index_errors =
                     Errors(Errors(Errors(@, c_ok, "Cache clear failed"),
                                   a_ok, "Address index"), z_ok, "ZIP database")]
    /\ proc' = [proc EXCEPT ![p].pc = "vec"]
    /\ UNCHANGED <<sourceKind, source, heap, ds, read, used>>

\* reindex_all after `await vector_index.index_customers(customers)`
VectorIndexed(p) ==
    /\ read = NoRead
    /\ proc[p].pc = "vec"
    /\ LET customers == heap[proc[p].arg]
           ok == idx.raises # "vector"
       IN  /\ idx' = [idx EXCEPT !.vector = IF ok THEN customers ELSE @]
           /\ im' = [im EXCEPT
                 !.stats.vectors_indexed = IF ok THEN Len(customers) ELSE @,
                 !.stats.index_errors = Errors(@, ok, "Vector index")]
    /\ proc' = [proc EXCEPT ![p].pc = "avec"]
    /\ UNCHANGED <<sourceKind, source, heap, ds, read, used>>

\* reindex_all after `await address_vector_index.index_addresses(customers)`:
\* the rebuild ends and the lock is released
AddressVectorIndexed(p) ==
    /\ read = NoRead
    /\ proc[p].pc = "avec"
    /\ LET ok == idx.raises # "avec"
       IN  /\ idx' = [idx EXCEPT !.avec = IF ok THEN heap[proc[p].arg] ELSE @]
           /\ im' = [im EXCEPT !.locked = FALSE,
                        !.stats.index_errors = Errors(@, ok, "Address vector index")]
    /\ proc' = [proc EXCEPT ![p] = IdleProc]
    /\ heap' = Collect(heap, Refs(proc', ds))
    /\ UNCHANGED <<sourceKind, source, ds, read, used>>

\* the file is written, removed or damaged; the database changes or goes down
ChangeSource ==
    /\ app = "icda"
    /\ read = NoRead
    /\ used.changes < MaxChanges
    /\ used' = [used EXCEPT !.changes = @ + 1]
    /\ \E s \in Sources(sourceKind) : s # source /\ source' = s
    /\ UNCHANGED <<sourceKind, heap, ds, idx, im, proc, read>>

\* a search result
Found(state, results) ==
    [NoRead EXCEPT !.op = "search", !.state = state, !.success = TRUE,
                   !.total = Len(results), !.data = results]

\* DataSource.search(state=state), the other filters and the limit not given
SearchState(d, state) ==
    LET state_upper == Upper(state)
    IN  IF state_upper \notin DOMAIN d.by_state
        THEN [NoRead EXCEPT !.op = "search", !.state = state,
                 !.error = "state_not_available",
                 !.available_states = d.metadata.available_states,
                 !.state_counts = d.metadata.state_counts]
        ELSE Found(state, d.by_state[state_upper])

\* CustomerData.search(state=state) of main.py
MainSearchState(d, state) ==
    Found(state, IF Upper(state) \in DOMAIN d.by_state THEN d.by_state[Upper(state)]
                 ELSE <<>>)

\* a request searches by state
Search(state) ==
    /\ read = NoRead
    /\ read' = IF app = "icda" THEN SearchState(ds, state) ELSE MainSearchState(ds, state)
    /\ UNCHANGED <<sourceKind, source, heap, ds, idx, im, proc, used>>

\* the request takes the result
ReadDone ==
    /\ read # NoRead
    /\ read' = NoRead
    /\ UNCHANGED <<sourceKind, source, heap, ds, idx, im, proc, used>>

(***************************************************************************)
(* DataSourceWatcher: start, stop and the watch loop, over a JSON file     *)
(* source whose listener is the IndexManager. A loop task is one of the    *)
(* coroutines of Procs; its reload runs the steps of the data source and   *)
(* the index manager above.                                                *)
(***************************************************************************)
\* calls of start and stop in one behaviour
MaxWatchCalls == 4

\* no task: the slot of a task never created
\* (tick changes at every poll of the slot's tasks)
\* (raised: the task's last poll raised and logged "Watch loop error")
NoLoop ==
    [pc |-> "none", cancel |-> FALSE, aborted |-> FALSE, tick |-> FALSE,
     raised |-> FALSE]

\* DataSourceWatcher.__init__
NewWatcher == [running |-> FALSE, task |-> "none", calls |-> 0]

\* a slot for a new task: the first one whose task, if any, has ended
FreeTask ==
    CHOOSE t \in Procs :
        /\ loops[t].pc \in {"none", "ended"}
        /\ \A u \in Procs : loops[u].pc \in {"none", "ended"} => (t = "p1" \/ u # "p1")

\* a start that never finds the watcher running
StartIgnored_never == FALSE

\* DataSourceWatcher.start: `if self._running: return`
StartIgnored == watcher.running

\* DataSourceWatcher.start
WatcherStart ==
    /\ app = "icda"
    /\ watcher.calls < MaxWatchCalls
    /\ IF StartIgnored
       THEN /\ watcher' = [watcher EXCEPT !.calls = @ + 1]
            /\ UNCHANGED loops
       ELSE /\ \E t \in Procs : loops[t].pc \in {"none", "ended"}
            /\ watcher' = [running |-> TRUE, task |-> FreeTask,
                           calls |-> watcher.calls + 1]
            /\ loops' = [loops EXCEPT ![FreeTask] =
                             [NoLoop EXCEPT !.pc = "new", !.tick = loops[FreeTask].tick]]

\* DataSourceWatcher.stop: the flag is cleared, the task is asked to cancel
\* and forgotten; stop does not await the task
WatcherStop ==
    /\ app = "icda"
    /\ watcher.calls < MaxWatchCalls
    /\ watcher' = [running |-> FALSE, task |-> "none", calls |-> watcher.calls + 1]
    /\ loops' = IF watcher.task # "none" /\ loops[watcher.task].pc # "ended"
                THEN [loops EXCEPT ![watcher.task].cancel = TRUE]
                ELSE loops

\* a task asked to cancel is scheduled at once: it runs before any step of
\* another task scheduled later
Runs(t) ==
    /\ ~loops[t].cancel
    /\ \A u \in Procs : loops[u].cancel => loops[u].pc = "ended"

\* `while self._running:` and, when it holds, `await asyncio.sleep(...)`
WhileRunning(l) == [l EXCEPT !.pc = IF watcher.running THEN "sleep" ELSE "ended"]

\* the task starts to run _watch_loop
LoopRun(t) ==
    /\ loops[t].pc = "new"
    /\ Runs(t)
    /\ loops' = [loops EXCEPT ![t] = WhileRunning(@)]
    /\ UNCHANGED watcher

\* JSONFileDataSource.check_for_changes
CheckForChanges == source.status # "missing" /\ source.newer

\* a loop that ends at the first error of a poll
AfterError_ends(l) == [l EXCEPT !.pc = "ended"]

\* `except Exception as e: logger.warning(...)`: the loop goes round
AfterError(l) == WhileRunning(l)

\* the sleep ends: check_for_changes, and on a change reload() up to its
\* first await (load, then the listener's reindex_all) or to its end; or,
\* when fails, the stat() of check_for_changes or of reload raises and the
\* loop's `except Exception` logs it
Polled(t, fails) ==
    /\ loops[t].pc = "sleep"
    /\ Runs(t)
    /\ proc[t].pc = "idle"
    /\ IF fails
       THEN /\ source.status # "missing"
            /\ loops' = [loops EXCEPT ![t] =
                            [AfterError(@) EXCEPT !.tick = ~@, !.raised = TRUE]]
            /\ UNCHANGED <<source, heap, ds, im, proc>>
       ELSE IF CheckForChanges
       THEN /\ LoadJson(t, "reload")
            /\ loops' = [loops EXCEPT ![t] =
                 IF proc'[t].pc = "idle"
                 THEN [WhileRunning(@) EXCEPT !.tick = ~@, !.raised = FALSE]
                 ELSE [@ EXCEPT !.pc = "reload", !.tick = ~@, !.raised = FALSE]]
       ELSE /\ loops' = [loops EXCEPT ![t] =
                            [WhileRunning(@) EXCEPT !.tick = ~@, !.raised = FALSE]]
            /\ UNCHANGED <<source, heap, ds, im, proc>>
    /\ UNCHANGED <<watcher, sourceKind, idx, read, used>>

LoopWake(t) == \E fails \in BOOLEAN : Polled(t, fails)

\* the reload of the loop goes on: a step of reindex_all
LoopCleared(t) ==
    /\ loops[t].pc = "reload"
    /\ Runs(t)
    /\ Cleared(t)
    /\ UNCHANGED <<watcher, loops>>

LoopVectorIndexed(t) ==
    /\ loops[t].pc = "reload"
    /\ Runs(t)
    /\ VectorIndexed(t)
    /\ UNCHANGED <<watcher, loops>>

\* the last step of reindex_all: reload returns and the loop goes round
LoopReloaded(t) ==
    /\ loops[t].pc = "reload"
    /\ Runs(t)
    /\ AddressVectorIndexed(t)
    /\ loops' = [loops EXCEPT ![t] = WhileRunning(@)]
    /\ UNCHANGED watcher

\* the task asked to cancel runs: CancelledError is raised at its await; no
\* `except Exception` on the way catches it, `async with` releases the lock,
\* and the loop's `except asyncio.CancelledError: break` ends the task. A
\* reload under way stops where it was.
LoopCancelled(t) ==
    /\ loops[t].cancel
    /\ loops[t].pc # "ended"
    /\ loops' = [loops EXCEPT ![t].pc = "ended",
                              ![t].aborted = (loops[t].pc = "reload")]
    /\ proc' = [proc EXCEPT ![t] = IdleProc]
    /\ im' = IF proc[t].pc \in {"clear", "vec", "avec"}
             THEN [im EXCEPT !.locked = FALSE] ELSE im
    /\ heap' = Collect(heap, Refs(proc', ds))
    /\ UNCHANGED <<watcher, sourceKind, source, ds, idx, read, used>>

\* the file is written, removed or damaged while the watcher exists
WatchedSourceChanges ==
    /\ ChangeSource
    /\ UNCHANGED <<watcher, loops>>

\* no watcher started
WatchQuiet ==
    /\ watcher = NewWatcher
    /\ loops = [t \in Procs |-> NoLoop]

(***************************************************************************)
(* The agents' pure functions: IntentAgent.classify,                       *)
(* ContextAgent._detect_follow_up and _extract_geographic, Cache.make_key. *)
(* Each is called on an input and the call's record is kept until the      *)
(* caller takes the result.                                                *)
(***************************************************************************)
\* most filler words appended to a query
MaxPad == 21

Digits == {"1", "12"}

\* \w: a token of letters or digits
WordChar(tok) == ~IsSpace(tok) /\ tok # "-"

\* \b before and after token i
BoundaryBefore(q, i) == i = 1 \/ ~WordChar(q[i - 1])

BoundaryAfter(q, i) == i = Len(q) \/ ~WordChar(q[i + 1])

\* [-\s]?\d+ right after token i: digits, or one hyphen or one blank and digits
IdTail(q, i) ==
    \/ i + 1 <= Len(q) /\ q[i + 1] \in Digits
    \/ i + 2 <= Len(q) /\ q[i + 1] \in {"-", " "} /\ q[i + 2] \in Digits

\* re.search(r"crid[-\s]?\d+", query): the letters before "crid" are free
StrictCrid(q) == \E i \in 1..Len(q) : q[i] \in {"crid", "xcrid"} /\ IdTail(q, i)

\* re.search(r"\bcrid[-\s]?\d+", query)
LookupCrid(q) ==
    \E i \in 1..Len(q) : q[i] = "crid" /\ BoundaryBefore(q, i) /\ IdTail(q, i)

\* re.search of \bw1\s+w2...: the words ws separated by whitespace, from a
\* word boundary, to a word boundary when endb
Phrase(q, ws, endb) ==
    \E i \in 1..Len(q) :
        /\ i + 2 * (Len(ws) - 1) <= Len(q)
        /\ BoundaryBefore(q, i)
        /\ \A k \in 1..Len(ws) : q[i + 2 * (k - 1)] = ws[k]
        /\ \A k \in 1..(Len(ws) - 1) : IsSpace(q[i + 2 * k - 1])
        /\ endb => BoundaryAfter(q, i + 2 * (Len(ws) - 1))

\* _match_patterns over the pattern tuples; of each tuple the patterns that
\* the words of the queries below can match
MatchLookup(q) ==
    \/ LookupCrid(q)
    \/ Phrase(q, <<"customer", "id">>, FALSE)
    \/ Phrase(q, <<"find", "customer">>, TRUE)

MatchStats(q) == Phrase(q, <<"how", "many">>, TRUE)

MatchComparison(q) == Phrase(q, <<"compare">>, TRUE)

MatchSearch(q) == Phrase(q, <<"find">>, TRUE)

MatchAnalysis(q) == Phrase(q, <<"trend">>, TRUE)

MatchRecommendation(q) == Phrase(q, <<"recommend">>, TRUE)

MatchAddress(q) == Phrase(q, <<"address">>, TRUE)

MatchKnowledge(q) == Phrase(q, <<"policy">>, TRUE)

\* len(query.split()): the runs of tokens that are not whitespace
WordCount(q) ==
    Cardinality({i \in 1..Len(q) : ~IsSpace(q[i]) /\ (i = 1 \/ IsSpace(q[i - 1]))})

Detected(intent, confidence, matched) ==
    [intent |-> intent, confidence |-> confidence, matched |-> matched]

\* a detection that gives every LOOKUP the confidence 0.8
DetectIntent_noBoost(q) ==
    IF MatchLookup(q) THEN Detected("LOOKUP", 8000, <<"lookup">>)
    ELSE IF MatchStats(q) THEN Detected("STATS", 8500, <<"stats">>)
    ELSE IF MatchComparison(q) THEN Detected("COMPARISON", 8000, <<"comparison">>)
    ELSE IF MatchAnalysis(q) THEN Detected("ANALYSIS", 8000, <<"analysis">>)
    ELSE IF MatchRecommendation(q) THEN Detected("RECOMMENDATION", 7500, <<"recommendation">>)
    ELSE IF MatchSearch(q) THEN Detected("SEARCH", 8500, <<"search">>)
    ELSE Detected("SEARCH", 6000, <<"default_search">>)

\* IntentAgent._detect_intent; a confidence is a number of ten-thousandths
DetectIntent(q) ==
    IF MatchLookup(q)
    THEN IF StrictCrid(q) THEN Detected("LOOKUP", 9500, <<"lookup">>)
         ELSE Detected("LOOKUP", 8000, <<"lookup">>)
    ELSE IF MatchStats(q) THEN Detected("STATS", 8500, <<"stats">>)
    ELSE IF MatchComparison(q) THEN Detected("COMPARISON", 8000, <<"comparison">>)
    ELSE IF MatchAnalysis(q) THEN Detected("ANALYSIS", 8000, <<"analysis">>)
    ELSE IF MatchRecommendation(q) THEN Detected("RECOMMENDATION", 7500, <<"recommendation">>)
    ELSE IF MatchSearch(q) THEN Detected("SEARCH", 8500, <<"search">>)
    ELSE Detected("SEARCH", 6000, <<"default_search">>)

\* _match_patterns(query, patterns) with the pattern tuple of an intent
MatchIntent(intent, q) ==
    CASE intent = "LOOKUP" -> MatchLookup(q)
      [] intent = "STATS" -> MatchStats(q)
      [] intent = "SEARCH" -> MatchSearch(q)
      [] intent = "ANALYSIS" -> MatchAnalysis(q)
      [] intent = "COMPARISON" -> MatchComparison(q)
      [] OTHER -> MatchRecommendation(q)

\* the list intent_patterns of _detect_secondary_intents
SecondaryOrder ==
    <<"LOOKUP", "STATS", "SEARCH", "ANALYSIS", "COMPARISON", "RECOMMENDATION">>

\* a list without the cap
FirstTwo_all(list) == list

\* secondary[:2]
FirstTwo(list) == SubSeq(list, 1, Min(2, Len(list)))

\* IntentAgent._detect_secondary_intents
DetectSecondaryIntents(q, primary) ==
    FirstTwo(SelectSeq(SecondaryOrder, LAMBDA i : i # primary /\ MatchIntent(i, q)))

\* a domain list without the fallback
DetectDomains_noFallback(q, primary_intent) ==
    (IF primary_intent \in {"LOOKUP", "SEARCH", "STATS"} THEN <<"CUSTOMER">> ELSE <<>>)
    \o (IF MatchAddress(q) THEN <<"ADDRESS">> ELSE <<>>)
    \o (IF MatchKnowledge(q) THEN <<"KNOWLEDGE">> ELSE <<>>)
    \o (IF primary_intent = "STATS" \/ MatchStats(q) THEN <<"STATS">> ELSE <<>>)

\* IntentAgent._detect_domains
DetectDomains(q, primary_intent) ==
    LET domains ==
            (IF primary_intent \in {"LOOKUP", "SEARCH", "STATS"} THEN <<"CUSTOMER">> ELSE <<>>)
            \o (IF MatchAddress(q) THEN <<"ADDRESS">> ELSE <<>>)
            \o (IF MatchKnowledge(q) THEN <<"KNOWLEDGE">> ELSE <<>>)
            \o (IF primary_intent = "STATS" \/ MatchStats(q) THEN <<"STATS">> ELSE <<>>)
    IN  IF domains = <<>> THEN <<"CUSTOMER">> ELSE domains

\* round(confidence, 3), in thousandths: the products that end in 5 are
\* doubles just below the half (0.95 * 0.85 rounds to 0.807)
Round3(x) == IF x % 10 > 5 THEN (x \div 10) + 1 ELSE x \div 10

\* IntentAgent._calculate_confidence
CalculateConfidence(q, intent_confidence, matched) ==
    LET boosted == IF Len(matched) > 1 THEN Min(intent_confidence + 1000, 10000)
                   ELSE intent_confidence
        short == IF WordCount(q) < 3 THEN (boosted * 9) \div 10 ELSE boosted
        long == IF WordCount(q) > 20 THEN (short * 85) \div 100 ELSE short
    IN  Round3(long)

\* IntentAgent.classify: primary intent and confidence (in thousandths)
Classify(query) ==
    LET q == Strip(LowerText(query))
        d == DetectIntent(q)
    IN  [primary_intent |-> d.intent,
         secondary_intents |-> DetectSecondaryIntents(q, d.intent),
         domains |-> DetectDomains(q, d.intent),
         confidence |-> CalculateConfidence(q, d.confidence, d.matched),
         intent_confidence |-> d.confidence]

RECURSIVE Pad(_, _)
\* a query followed by k more words
Pad(q, k) == IF k = 0 THEN q ELSE Pad(q \o <<" ", "x">>, k - 1)

\* the queries classified: with and without a record ID, the ID written in
\* every way, alone and followed by up to MaxPad words
ClassifyCores ==
    {<<"crid", "-", "1">>, <<"CRID", "-", "12">>, <<"crid", " ", "12">>,
     <<"crid", "1">>, <<"find", " ", "crid", "-", "1">>,
     <<"crid", "  ", "12">>, <<"crid", "-", " ", "1">>, <<"xcrid", "-", "1">>,
     <<"find", " ", "customer">>, <<"customer", " ", "id">>,
     <<"how", " ", "many">>, <<"compare">>, <<"find">>, <<"x">>}

\* the words and phrases that match the pattern tuples
IntentPhrases ==
    << <<"find", " ", "customer">>, <<"how", " ", "many">>, <<"compare">>, <<"trend">>,
       <<"recommend">>, <<"find">>, <<"address">>, <<"policy">> >>

RECURSIVE Joined(_, _)
\* the phrases of IntentPhrases numbered in S, in their order, separated by
\* blanks
Joined(S, i) ==
    IF i > Len(IntentPhrases) THEN <<>>
    ELSE IF i \notin S THEN Joined(S, i + 1)
    ELSE LET rest == Joined(S, i + 1)
         IN  IF rest = <<>> THEN IntentPhrases[i]
             ELSE IntentPhrases[i] \o <<" ">> \o rest

\* queries that match any set of the pattern tuples at once
IntentCores == {Joined(S, 1) : S \in (SUBSET (1..Len(IntentPhrases))) \ {{}}}

\* the lengths tried for the queries of IntentCores: as they are, and long
LongPads == {0, MaxPad}

ClassifyQueries ==
    {Pad(c, k) : c \in ClassifyCores, k \in 0..MaxPad}
    \cup {Pad(c, k) : c \in IntentCores, k \in LongPads}

\* ContextAgent.FOLLOW_UP_PATTERNS, of which the words of the queries below
\* can match \bthose\b, \bit\b and \btell\s+me\s+more\b
MatchFollowUp(q) ==
    \/ Phrase(q, <<"those">>, TRUE)
    \/ Phrase(q, <<"it">>, TRUE)
    \/ Phrase(q, <<"tell", "me", "more">>, TRUE)

\* a detection without the test of the history
DetectFollowUp_anyHistory(query, history) ==
    MatchFollowUp(LowerText(query)) \/ WordCount(query) <= 3

\* ContextAgent._detect_follow_up
DetectFollowUp(query, history) ==
    IF history = <<>> THEN FALSE
    ELSE IF MatchFollowUp(LowerText(query)) THEN TRUE
    ELSE IF WordCount(query) <= 3 /\ history # <<>> THEN TRUE
    ELSE FALSE

\* the queries tested for a follow-up, alone and followed by up to MaxPad words
FollowUpCores == {<<"x">>, <<"find">>, <<"it">>, <<"tell", " ", "me", " ", "more">>}

FollowUpQueries == {Pad(c, k) : c \in FollowUpCores, k \in 0..MaxPad}

\* the session histories: none, one earlier exchange
Histories ==
    {<<>>, << <<"user", <<"find">>>>, <<"assistant", <<"customers", " ", "in", " ", "NV">>>> >>}

\* ContextAgent.VALID_STATES
VALID_STATES ==
    {"AL", "AK", "AZ", "AR", "CA", "CO", "CT", "DE", "FL", "GA", "HI", "ID",
     "IL", "IN", "IA", "KS", "KY", "LA", "ME", "MD", "MA", "MI", "MN", "MS",
     "MO", "MT", "NE", "NV", "NH", "NJ", "NM", "NY", "NC", "ND", "OH", "OK",
     "OR", "PA", "PR", "RI", "SC", "SD", "TN", "TX", "UT", "VT", "VA", "WA",
     "WV", "WI", "WY", "DC"}

\* ContextAgent.STATE_NAMES, in the order of the dict: the name (its words and
\* blanks) and the code
STATE_NAMES ==
    << <<<<"alabama">>, "AL">>, <<<<"alaska">>, "AK">>,
       <<<<"arizona">>, "AZ">>, <<<<"arkansas">>, "AR">>,
       <<<<"california">>, "CA">>, <<<<"colorado">>, "CO">>,
       <<<<"connecticut">>, "CT">>, <<<<"delaware">>, "DE">>,
       <<<<"florida">>, "FL">>, <<<<"georgia">>, "GA">>,
       <<<<"hawaii">>, "HI">>, <<<<"idaho">>, "ID">>,
       <<<<"illinois">>, "IL">>, <<<<"indiana">>, "IN">>,
       <<<<"iowa">>, "IA">>, <<<<"kansas">>, "KS">>,
       <<<<"kentucky">>, "KY">>, <<<<"louisiana">>, "LA">>,
       <<<<"maine">>, "ME">>, <<<<"maryland">>, "MD">>,
       <<<<"massachusetts">>, "MA">>, <<<<"michigan">>, "MI">>,
       <<<<"minnesota">>, "MN">>, <<<<"mississippi">>, "MS">>,
       <<<<"missouri">>, "MO">>, <<<<"montana">>, "MT">>,
       <<<<"nebraska">>, "NE">>, <<<<"nevada">>, "NV">>,
       <<<<"new", " ", "hampshire">>, "NH">>,
       <<<<"new", " ", "jersey">>, "NJ">>,
       <<<<"new", " ", "mexico">>, "NM">>, <<<<"new", " ", "york">>, "NY">>,
       <<<<"north", " ", "carolina">>, "NC">>,
       <<<<"north", " ", "dakota">>, "ND">>, <<<<"ohio">>, "OH">>,
       <<<<"oklahoma">>, "OK">>, <<<<"oregon">>, "OR">>,
       <<<<"pennsylvania">>, "PA">>, <<<<"puerto", " ", "rico">>, "PR">>,
       <<<<"rhode", " ", "island">>, "RI">>,
       <<<<"south", " ", "carolina">>, "SC">>,
       <<<<"south", " ", "dakota">>, "SD">>, <<<<"tennessee">>, "TN">>,
       <<<<"texas">>, "TX">>, <<<<"utah">>, "UT">>, <<<<"vermont">>, "VT">>,
       <<<<"virginia">>, "VA">>, <<<<"washington">>, "WA">>,
       <<<<"west", " ", "virginia">>, "WV">>, <<<<"wisconsin">>, "WI">>,
       <<<<"wyoming">>, "WY">>,
       <<<<"district", " ", "of", " ", "columbia">>, "DC">>,
       <<<<"d.c.">>, "DC">>, <<<<"dc">>, "DC">> >>

\* the tokens of two capital letters
TwoCapitals == VALID_STATES \cup {"XX"}

\* re.search(r"\b([A-Z]{2})\b", text): the first such token, "" when none
FirstCode(text) ==
    LET at == {i \in 1..Len(text) :
                 text[i] \in TwoCapitals /\ BoundaryBefore(text, i)
                                         /\ BoundaryAfter(text, i)}
    IN  IF at = {} THEN ""
        ELSE text[CHOOSE i \in at : \A j \in at : i <= j]

\* `w in tok` for a word of a name and a token of the text: of the words here
\* only "kansas" lies inside another one
InToken(w, tok) == w = tok \/ (w = "kansas" /\ tok = "arkansas")

\* `name in text_lower`: the name is a substring of the text
NameIn(name, text) ==
    \E i \in 1..Len(text) :
        /\ i + Len(name) - 1 <= Len(text)
        /\ \A k \in 1..Len(name) :
              IF k = 1 \/ k = Len(name)
              THEN InToken(name[k], text[i + k - 1])
              ELSE name[k] = text[i + k - 1]

\* for name, code in STATE_NAMES.items(): the first name of the table found
StateOfName(text) ==
    LET found == {n \in 1..Len(STATE_NAMES) : NameIn(STATE_NAMES[n][1], text)}
    IN  IF found = {} THEN ""
        ELSE STATE_NAMES[CHOOSE n \in found : \A m \in found : n <= m][2]

\* the state one text yields: a valid code, else a name
StateOf(text) ==
    IF FirstCode(text) \in VALID_STATES THEN FirstCode(text)
    ELSE StateOfName(LowerText(text))

RECURSIVE FirstState(_)
\* the first state found in the texts, "" when none
FirstState(texts) ==
    IF texts = <<>> THEN ""
    ELSE IF StateOf(Head(texts)) # "" THEN StateOf(Head(texts))
    ELSE FirstState(Tail(texts))

\* list(reversed(seq))
Reversed(seq) == [i \in 1..Len(seq) |-> seq[Len(seq) + 1 - i]]

\* ContextAgent._extract_geographic, the state: the current query first, then
\* the history from the latest message back
ExtractGeographic(history, current_query) ==
    FirstState(<<current_query>> \o
               [i \in 1..Len(history) |-> Reversed(history)[i][2]])

\* all_text: the current query, then the texts of the history from the latest
\* message back
AllText(history, current_query) ==
    <<current_query>> \o [i \in 1..Len(history) |-> Reversed(history)[i][2]]

\* the tokens of five digits
ZipTokens == {"89101", "75001"}

\* re.search(r"\b(\d{5})(?:-\d{4})?\b", text): group 1 of the first match, ""
\* when there is none
ZipOf(text) ==
    LET at == {i \in 1..Len(text) :
                 text[i] \in ZipTokens /\ BoundaryBefore(text, i)
                                       /\ BoundaryAfter(text, i)}
    IN  IF at = {} THEN ""
        ELSE text[CHOOSE i \in at : \A j \in at : i <= j]

RECURSIVE FirstZip(_)
\* the first ZIP code found in the texts, "" when none
FirstZip(texts) ==
    IF texts = <<>> THEN ""
    ELSE IF ZipOf(Head(texts)) # "" THEN ZipOf(Head(texts))
    ELSE FirstZip(Tail(texts))

\* ContextAgent._extract_geographic, the ZIP code
ExtractZipCode(history, current_query) ==
    FirstZip(AllText(history, current_query))

\* the texts searched for a state: a name of the table or a code, alone or
\* after other words
GeoPrefixes == {<<>>, <<"customers", " ", "in", " ">>, <<"XX", " ">>}

GeoBodies ==
    {STATE_NAMES[n][1] : n \in 1..Len(STATE_NAMES)}
    \cup {<<c>> : c \in VALID_STATES} \cup {<<"Nevada">>, <<"x">>}

GeoTexts == {p \o b : p \in GeoPrefixes, b \in GeoBodies}

\* texts with a ZIP code, with its +4 suffix, with six digits, and with a
\* state and a ZIP code
ZipTexts ==
    {<<"zip", " ", "75001">>, <<"zip", " ", "75001", "-", "1234">>,
     <<"123456">>, <<"customers", " ", "in", " ", "TX", " ", "75001">>}

\* the messages of the histories searched for a state and a ZIP code
GeoMessages ==
    {<<"user", <<"find">>>>,
     <<"assistant", <<"customers", " ", "in", " ", "NV", " ", "89101">>>>,
     <<"user", <<"customers", " ", "in", " ", "TX">>>>,
     <<"user", <<"zip", " ", "75001", "-", "1234">>>>}

\* the messages of one history
MaxGeoHistory == 2

GeoHistories == SeqsUpTo(GeoMessages, MaxGeoHistory)

\* the texts a cache key is made of
KeyTexts ==
    {<<"Find", " ", "CRID", "-", "1">>, <<"find", " ", "crid", "-", "1", " ">>,
     <<"  ", "find", " ", "crid", "-", "1">>, <<"find", "  ", "crid", "-", "1">>,
     <<"find", " ", "crid", "-", "12">>, <<"find">>, <<"Find", " ">>}

\* no call of a pure function
NoPure ==
    [fn |-> "none", text |-> <<>>, other |-> <<>>, history |-> <<>>,
     session_id |-> "", manager |-> "absent", customers |-> <<>>,
     field |-> "", limit |-> <<>>, out |-> [none |-> TRUE]]

CallClassify ==
    /\ pure = NoPure
    /\ \E query \in ClassifyQueries :
         pure' = [NoPure EXCEPT !.fn = "classify", !.text = query,
                                !.out = Classify(query)]

CallDetectFollowUp ==
    /\ pure = NoPure
    /\ \E query \in FollowUpQueries, history \in Histories :
         pure' = [NoPure EXCEPT !.fn = "detect_follow_up", !.text = query,
                    !.history = history,
                    !.out = [is_follow_up |-> DetectFollowUp(query, history)]]

CallExtractGeographic ==
    /\ pure = NoPure
    /\ \E query \in GeoTexts \cup ZipTexts, history \in Histories \cup GeoHistories :
         pure' = [NoPure EXCEPT !.fn = "extract_geographic", !.text = query,
                    !.history = history,
                    !.out = [state |-> ExtractGeographic(history, query),
                             zip_code |-> ExtractZipCode(history, query)]]

\* make_key on two texts
CallMakeKey ==
    /\ pure = NoPure
    /\ \E a \in KeyTexts, b \in KeyTexts :
         pure' = [NoPure EXCEPT !.fn = "make_key", !.text = a, !.other = b,
                    !.out = [key |-> MakeKey(a), other |-> MakeKey(b)]]

\* the history messages of a _build_messages call
MaxHistory == 7

\* context.session_history[-6:]
HISTORY_WINDOW == 6

\* a message in Bedrock format
Message(role, content) == [role |-> role, content |-> content]

\* [b for b in content if "text" in b]
TextBlocks(content) == SelectSeq(content, LAMBDA b : b[1] = "text")

\* history[-n:]
LastOf(history, n) ==
    IF Len(history) <= n THEN history
    ELSE SubSeq(history, Len(history) - n + 1, Len(history))

\* the messages of the history with their text blocks only; a message left
\* without a block is not added
TextOnly(history) ==
    LET F[i \in 0..Len(history)] ==
            IF i = 0 THEN <<>>
            ELSE IF TextBlocks(history[i].content) # <<>>
                    /\ history[i].role \in {"user", "assistant"}
            THEN Append(F[i - 1], Message(history[i].role, TextBlocks(history[i].content)))
            ELSE F[i - 1]
    IN  F[Len(history)]

\* a message list built from the whole history
BuildMessages_wholeHistory(query, history) ==
    Append(TextOnly(history), Message("user", << <<"text", query>> >>))

\* NovaAgent._build_messages
BuildMessages(query, history) ==
    Append(TextOnly(LastOf(history, HISTORY_WINDOW)),
           Message("user", << <<"text", query>> >>))

\* NovaClient._query_simple: `messages`, built from the history the router
\* passes (session.get_history(max_messages=20))
SimpleMessages(text, history) ==
    Append(TextOnly(history), Message("user", << <<"text", text>> >>))

\* the messages a session history is made of: a user's text, an assistant's
\* tool request alone, an assistant's text with a tool request, a user's tool
\* result
HistoryMessages ==
    {Message("user", << <<"text", "a">> >>),
     Message("assistant", << <<"toolUse", "lookup_crid">> >>),
     Message("assistant", << <<"text", "b">>, <<"toolUse", "lookup_crid">> >>),
     Message("user", << <<"toolResult", "lookup_crid">> >>)}

\* _build_messages or _query_simple's message list on a history
CallBuildMessages ==
    /\ pure = NoPure
    /\ \E history \in SeqsUpTo(HistoryMessages, MaxHistory) :
         \/ pure' = [NoPure EXCEPT !.fn = "build_messages", !.history = history,
                       !.out = [messages |-> BuildMessages("q", history)]]
         \/ pure' = [NoPure EXCEPT !.fn = "simple_messages", !.history = history,
                       !.out = [messages |-> SimpleMessages("q", history)]]

\* session.get_history(max_messages=10)
HISTORY_FETCH == 10

\* the session manager an agent is built with: none at all ("absent"), or how
\* its get(session_id) ends: no such session ("none"), a session without
\* messages ("empty"), a session with messages ("session"), an exception
\* ("raises")
Stores == {"absent", "none", "empty", "session", "raises"}

\* the session ids of a request: none given, one given
GivenSessionIds == {"", "s1"}

\* a history fetch that lets the store's exception through
GetSessionHistory_letsRaise(session_id, manager, messages) ==
    IF session_id = "" \/ manager = "absent" THEN [raised |-> FALSE, history |-> <<>>]
    ELSE IF manager = "raises" THEN [raised |-> TRUE, history |-> <<>>]
    ELSE IF manager = "session" /\ messages # <<>>
    THEN [raised |-> FALSE, history |-> LastOf(messages, HISTORY_FETCH)]
    ELSE [raised |-> FALSE, history |-> <<>>]

\* ContextAgent._get_session_history: the history, and whether an exception
\* leaves the function
GetSessionHistory(session_id, manager, messages) ==
    IF session_id = "" \/ manager = "absent" THEN [raised |-> FALSE, history |-> <<>>]
    ELSE IF manager = "raises" THEN [raised |-> FALSE, history |-> <<>>]
    ELSE IF manager = "session" /\ messages # <<>>
    THEN [raised |-> FALSE, history |-> LastOf(messages, HISTORY_FETCH)]
    ELSE [raised |-> FALSE, history |-> <<>>]

\* ContextAgent._get_prior_results: the results of the latest assistant
\* message that carries a tool result, in a one-element sequence; <<>> for None
GetPriorResults(history) ==
    LET at == {i \in 1..Len(history) :
                 history[i][1] = "assistant" /\ Len(history[i]) = 3}
    IN  IF at = {} THEN <<>>
        ELSE <<history[CHOOSE i \in at : \A j \in at : j <= i][3]>>

\* ContextAgent.extract: the QueryContext returned, or an exception raised
Extract(session_id, manager, messages, query) ==
    LET got == GetSessionHistory(session_id, manager, messages)
    IN  IF got.raised
        THEN [raised |-> TRUE, session_history |-> <<>>, state |-> "",
              zip_code |-> "", prior_results |-> <<>>, is_follow_up |-> FALSE]
        ELSE [raised |-> FALSE,
              session_history |-> got.history,
              state |-> ExtractGeographic(got.history, query),
              zip_code |-> ExtractZipCode(got.history, query),
              prior_results |-> GetPriorResults(got.history),
              is_follow_up |-> DetectFollowUp(query, got.history)]

\* the messages a stored session holds: an exchange of texts, and one whose
\* answer carries the results of a tool
StoredMessages ==
    (Histories \ {<<>>}) \cup
    {<< <<"user", <<"find">>>>,
        <<"assistant", <<"customers", " ", "in", " ", "NV">>, <<"CRID-1">>>> >>}

\* extract on a session id, a session manager and a query
CallExtract ==
    /\ pure = NoPure
    /\ \E session_id \in GivenSessionIds, manager \in Stores, query \in FollowUpQueries :
         \E messages \in IF manager = "session" THEN StoredMessages ELSE {<<>>} :
            pure' = [NoPure EXCEPT !.fn = "extract", !.text = query,
                       !.session_id = session_id, !.manager = manager,
                       !.history = messages,
                       !.out = Extract(session_id, manager, messages, query)]

\* A CRID is its prefix followed by its characters: <<"CRID-", "0", "7">>
\* str.upper() on a CRID
UpperCrid(crid) ==
    IF crid[1] \in {"crid-", "Crid-"} THEN <<"CRID-">> \o Tail(crid) ELSE crid

\* str.zfill(n) on a string of digits
ZFill(num, n) ==
    IF Len(num) >= n THEN num ELSE [i \in 1..(n - Len(num)) |-> "0"] \o num

\* the widths tried from the narrowest to the widest
LookupWidths_narrowFirst == <<3, 5, 6>>

\* the widths DataSource.lookup pads the number to, in the order tried
LookupWidths == <<6, 5, 3>>

\* the widths CustomerData.lookup of main.py pads the number to
MainLookupWidths == <<6, 3>>

\* a lookup that tries the identifier as given only
LookupFormats_asGiven(crid, widths) == <<crid>>

\* the formats a lookup tries for an upper-cased CRID, in their order
LookupFormats(crid, widths) ==
    [i \in 1..Len(widths) |-> <<"CRID-">> \o ZFill(Tail(crid), widths[i])]
    \o <<crid>>

\* DataSource.lookup over the index by_crid; CustomerData.lookup with the
\* widths of main.py
Lookup(by_crid, given, widths) ==
    LET crid == UpperCrid(given)
        fmts == LookupFormats(crid, widths)
        hits == {i \in 1..Len(fmts) : fmts[i] \in DOMAIN by_crid}
    IN  IF crid[1] = "CRID-" /\ hits # {}
        THEN [success |-> TRUE,
              data |-> <<by_crid[fmts[CHOOSE i \in hits : \A j \in hits : i <= j]]>>]
        ELSE [success |-> FALSE, data |-> <<>>]

\* the characters of the numbers looked up: 7 and 77, unpadded and padded
NumCores == {<<"7">>, <<"7", "7">>}

\* the longest number looked up
MaxDigits == 7

Nums ==
    {<<>>, <<"0">>} \cup
    {ZFill(c, n) : c \in NumCores, n \in 1..MaxDigits}

\* the identifiers looked up
LookupCrids == {<<pre>> \o num : pre \in {"CRID-", "crid-", "Crid-", "ID-"}, num \in Nums}

\* the record IDs the data can hold: the prefix and a zero-padded number
StoredCrids ==
    << <<"CRID-">> \o ZFill(<<"7">>, 6), <<"CRID-">> \o ZFill(<<"7">>, 5),
       <<"CRID-">> \o ZFill(<<"7">>, 3), <<"CRID-", "7">>,
       <<"CRID-">> \o ZFill(<<"7">>, 7), <<"CRID-">> \o ZFill(<<"7", "7">>, 6) >>

\* the customer lists of the lookups: every choice of the record IDs
LookupCustomers ==
    {LET ids == SelectSeq(StoredCrids, LAMBDA c : c \in S)
     IN  [i \in 1..Len(ids) |-> Customer(ids[i], "Bob", "Reno", "1 Elm St", "NV")] :
     S \in SUBSET Range(StoredCrids)}

\* lookup(crid) on a data source or on main.py's CustomerData
CallLookup ==
    /\ pure = NoPure
    /\ \E customers \in LookupCustomers, crid \in LookupCrids :
         \/ pure' = [NoPure EXCEPT !.fn = "lookup", !.text = crid,
                       !.customers = customers,
                       !.out = Lookup(ByCrid(customers), crid, LookupWidths)]
         \/ pure' = [NoPure EXCEPT !.fn = "main_lookup", !.text = crid,
                       !.customers = customers,
                       !.out = Lookup(ByCrid(customers), crid, MainLookupWidths)]

\* "max 100" of the search tool's limit (and min(limit, 100) of main.py)
GLOBAL_MAX == 100

\* the longest customer list searched
MaxRecords == 101

\* a list of n customers: every third one in Reno NV, then Austin TX, then
\* one without a state in Fresno
SearchCustomers(n) ==
    [i \in 1..n |->
        CASE i % 3 = 1 -> Customer(<<"CRID-", i>>, "Bob", "Reno", "1 Elm St", "NV")
          [] i % 3 = 2 -> Customer(<<"CRID-", i>>, "alice", "Austin", "", "TX")
          [] OTHER -> Customer(<<"CRID-", i>>, "Bob", "Fresno", "2 Oak Ave", "")]

\* the city filters: none, a city in another case, a part of a city's name
CityFilters == {"", "RENO", "res"}

\* city.casefold() in c.get("city", "").casefold()
CityMatches(city, value) ==
    \/ city = "RENO" /\ value = "Reno"
    \/ city = "res" /\ value = "Fresno"

\* the limits of a search: none (<<>>), or a number
Limits == {<<>>, <<0>>, <<1>>, <<2>>, <<GLOBAL_MAX>>, <<GLOBAL_MAX + 1>>}

\* results[:limit] if limit else results
Limited(results, limit) ==
    IF limit = <<>> \/ limit[1] = 0 THEN results
    ELSE SubSeq(results, 1, Min(limit[1], Len(results)))

\* DataSource.search(state, city, limit) over self._customers and the state
\* index; min_moves, customer_type and has_apartment are not given
SearchFiltered(customers, state, city, limit) ==
    IF state # "" /\ Upper(state) \notin DOMAIN ByState(customers)
    THEN [success |-> FALSE, total |-> 0, data |-> <<>>]
    ELSE LET results == IF state # "" THEN ByState(customers)[Upper(state)]
                        ELSE customers
             in_city == IF city = "" THEN results
                        ELSE SelectSeq(results, LAMBDA c : CityMatches(city, c.city))
         IN  [success |-> TRUE, total |-> Len(in_city),
              data |-> Limited(in_city, limit)]

\* search on a customer list with a state filter, a city filter and a limit
CallSearch ==
    /\ pure = NoPure
    /\ \E n \in {0, 3, MaxRecords}, state \in SearchStates \cup {"", "TX"},
          city \in CityFilters, limit \in Limits :
         pure' = [NoPure EXCEPT !.fn = "search", !.customers = SearchCustomers(n),
                    !.text = <<state, city>>, !.limit = limit,
                    !.out = SearchFiltered(SearchCustomers(n), state, city, limit)]

\* a second customer in Austin, written in other cases
CustD == Customer("CRID-000003", "Alice", "AUSTIN", "", "TX")

\* the prefixes completed: of two values, of one, in upper case, of none,
\* followed by blanks, and blank
Prefixes == {"a", "al", "R", "z", "al ", " "}

\* prefix.lower().strip()
LowerStrip(prefix) ==
    CASE prefix = "al " -> "al"
      [] prefix = " " -> ""
      [] OTHER -> LowerValue(prefix)

\* value.startswith(prefix) for a lowercased value and the prefixes above
StartsWith(value, prefix) ==
    \/ value = prefix
    \/ prefix = "a" /\ value \in {"al", "alice", "austin"}
    \/ prefix = "al" /\ value = "alice"
    \/ prefix = "r" /\ value = "reno"

\* bisect_left(index, (prefix_lower,)): the entries before the first one
\* whose value is not below the prefix
BisectLeft(index, prefix_lower) ==
    Cardinality({i \in 1..Len(index) : Rank(index[i][1]) < Rank(prefix_lower)})

\* an entry of the data of an autocomplete result
Completion(field, customer, customers) ==
    IF field = "city"
    THEN [value |-> customer.city, state |-> customer.state,
          count |-> Cardinality({i \in 1..Len(customers) :
                       LowerValue(customers[i].city) = LowerValue(customer.city)})]
    ELSE [value |-> customer[field], state |-> customer.state,
          crid |-> customer.crid, name |-> customer.name, city |-> customer.city]

\* `if not index`: an index without entries counts as no index
NoIndex(index) == index = <<>>

\* DataSource.autocomplete
Autocomplete(customers, field, prefix, limit) ==
    LET prefix_lower == LowerStrip(prefix)
        index == AutoIndex(customers, field)
        Fail(error) == [success |-> FALSE, error |-> error, count |-> 0, data |-> <<>>]
        \* the loop from position pos on: the results, and the cities seen
        Loop[i \in 0..Len(index)] ==
            IF i <= BisectLeft(index, prefix_lower) THEN [results |-> <<>>, go |-> TRUE]
            ELSE LET before == Loop[i - 1]
                     customer == index[i][2]
                 IN  IF ~before.go \/ Len(before.results) >= limit
                        \/ ~StartsWith(index[i][1], prefix_lower)
                     THEN [before EXCEPT !.go = FALSE]
                     ELSE IF field = "city"
                             /\ \E k \in 1..Len(before.results) :
                                   LowerValue(before.results[k].value)
                                       = LowerValue(customer.city)
                     THEN before
                     ELSE [before EXCEPT
                             !.results = Append(@, Completion(field, customer, customers))]
    IN  IF prefix_lower = "" THEN Fail("Empty prefix")
        ELSE IF field \notin {"address", "name", "city"} THEN Fail("Unknown field")
        ELSE IF NoIndex(index) THEN Fail("Unknown field")
        ELSE [success |-> TRUE, error |-> "none",
              count |-> Len(Loop[Len(index)].results),
              data |-> Loop[Len(index)].results]

\* the customers of a list completed
MaxCompleted == 3

\* autocomplete on a customer list, a field, a prefix and a limit
CallAutocomplete ==
    /\ pure = NoPure
    /\ \E customers \in SeqsUpTo({CustA, CustB, CustC, CustD}, MaxCompleted),
          field \in {"address", "name", "city", "zip"}, prefix \in Prefixes,
          limit \in {<<0>>, <<1>>, <<2>>, <<10>>} :
         pure' = [NoPure EXCEPT !.fn = "autocomplete", !.customers = customers,
                    !.field = field, !.text = <<prefix>>, !.limit = limit,
                    !.out = Autocomplete(customers, field, prefix, limit[1])]

\* the caller takes the result
TakeResult ==
    /\ pure # NoPure
    /\ pure' = NoPure

AgentsQuiet == pure = NoPure

(***************************************************************************)
(* Query Orchestrator: the pipeline of eight stages called by              *)
(* NovaClient._query_orchestrated, and the PipelineStage and PipelineTrace *)
(* records it fills in. The orchestrator's state machine follows the       *)
(* specification's section on the Query Orchestrator.                      *)
(***************************************************************************)
PipelineStages ==
    {"INTENT", "CONTEXT", "PARSE", "RESOLVE", "SEARCH", "KNOWLEDGE", "GENERATE", "ENFORCE"}

\* a generate that takes the knowledge stage's output for granted
GenerateNeeds_searchOnly == {"SEARCH"}

\* NovaAgent.generate(query, search_result, knowledge, context, intent): the
\* stages whose results are its arguments and were made after RESOLVE
GenerateNeeds == {"SEARCH", "KNOWLEDGE"}

\* the stages a stage waits for
Before(s) ==
    CASE s = "INTENT" -> {}
      [] s = "CONTEXT" -> {"INTENT"}
      [] s = "PARSE" -> {"CONTEXT"}
      [] s = "RESOLVE" -> {"PARSE"}
      [] s = "SEARCH" -> {"RESOLVE"}
      [] s = "KNOWLEDGE" -> {"RESOLVE"}
      [] s = "GENERATE" -> GenerateNeeds
      [] OTHER -> {"GENERATE"}

\* elapsed times of the stages of a request, in ms
StageTimes == {1, 2}

\* a PipelineStage that keeps the defaults success=True, error=None
PipelineStage_defaults(agent, output, time_ms, success, error) ==
    [agent |-> agent, output |-> output, time_ms |-> time_ms,
     success |-> TRUE, error |-> Null]

\* models.PipelineStage
PipelineStage(agent, output, time_ms, success, error) ==
    [agent |-> agent, output |-> output, time_ms |-> time_ms,
     success |-> success, error |-> error]

\* models.PipelineTrace()
NewPipelineTrace == [stages |-> <<>>, total_time_ms |-> 0, success |-> TRUE]

\* no request in the orchestrator
NoPipeline ==
    [pc |-> "idle", knowledge |-> FALSE, ms |-> 0, started |-> {}, out |-> EmptyMap,
     got |-> EmptyMap, trace |-> NewPipelineTrace, result |-> [none |-> TRUE]]

\* orchestrator.process(query, session_id, trace_enabled=True) begins;
\* `knowledge`: the query is of the KNOWLEDGE domain; `ms`: the time each
\* of its stages takes
OrchProcess ==
    /\ pipeline.pc = "idle"
    /\ \E k \in BOOLEAN, ms \in StageTimes :
         pipeline' = [pipeline EXCEPT !.pc = "run", !.knowledge = k, !.ms = ms]

\* a stage may start when every stage before it has finished
Ready(s) ==
    /\ pipeline.pc = "run"
    /\ s \notin pipeline.started
    /\ Before(s) \subseteq DOMAIN pipeline.out

\* a stage starts with the outputs of the stages before it
StageStart(s) ==
    /\ Ready(s)
    /\ s = "KNOWLEDGE" => pipeline.knowledge
    /\ pipeline' = [pipeline EXCEPT
         !.started = @ \cup {s},
         !.got = [x \in DOMAIN @ \cup {s} |->
                    IF x = s THEN [b \in Before(s) |-> pipeline.out[b]] ELSE @[x]]]

\* the record of a stage is added to the trace
Recorded(pl, s, output, time_ms, success, error) ==
    [pl EXCEPT
       !.out = [x \in DOMAIN @ \cup {s} |-> IF x = s THEN output ELSE @[x]],
       !.trace.stages = Append(@, PipelineStage(s, output, time_ms, success, error))]

\* a stage ends: with its output, or failed (error or timeout) with its
\* default output
StageFinish(s) ==
    /\ pipeline.pc = "run"
    /\ s \in pipeline.started
    /\ s \notin DOMAIN pipeline.out
    /\ \E ok \in BOOLEAN :
         pipeline' = IF ok
                     THEN Recorded(pipeline, s, "output", pipeline.ms, TRUE, Null)
                     ELSE Recorded(pipeline, s, "default", pipeline.ms, FALSE,
                                   <<"stage failed">>)

\* the knowledge stage is not invoked for a query without the KNOWLEDGE
\* domain: it is recorded as skipped
StageSkipped ==
    /\ Ready("KNOWLEDGE")
    /\ ~pipeline.knowledge
    /\ pipeline' = [Recorded(pipeline, "KNOWLEDGE", "default", 0, FALSE, <<"skipped">>)
                       EXCEPT !.started = @ \cup {"KNOWLEDGE"}]

RECURSIVE SumTimes(_)
SumTimes(stages) ==
    IF stages = <<>> THEN 0 ELSE Head(stages).time_ms + SumTimes(Tail(stages))

\* DONE: total latency is the sum of the recorded stage times, overall
\* success is true unless intent classification failed
OrchDone ==
    /\ pipeline.pc = "run"
    /\ DOMAIN pipeline.out = PipelineStages
    /\ pipeline' = [pipeline EXCEPT
         !.pc = "DONE",
         !.trace.total_time_ms = SumTimes(pipeline.trace.stages),
         !.trace.success = (pipeline.out["INTENT"] = "output")]

\* NovaClient._query_orchestrated: the dict made of the orchestrator's result
QueryOrchestrated ==
    /\ pipeline.pc = "DONE"
    /\ pipeline' = [pipeline EXCEPT
         !.pc = "returned",
         !.result = [success |-> pipeline.trace.success,
                     response |-> pipeline.out["ENFORCE"],
                     route |-> "nova",
                     latency_ms |-> pipeline.trace.total_time_ms]]

OrchQuiet == pipeline = NoPipeline

\* the data source constructed and nothing loaded
DataQuiet ==
    /\ sourceKind = "json"
    /\ source = Source("missing", <<>>, FALSE)
    /\ heap = [i \in ListIds |-> <<>>]
    /\ ds = NewDataSource
    /\ idx = NewIndexes("none")
    /\ im = NewIndexManager(TRUE)
    /\ proc = [p \in Procs |-> IdleProc]
    /\ read = NoRead
    /\ used = [ops |-> 0, changes |-> 0]

\* icda with a data source of one kind and nothing loaded, or main.py with
\* its CustomerData constructed from the file or from its defaults
\* nothing called on the components modelled after the data source
RestQuiet == AgentsQuiet /\ WatchQuiet /\ OrchQuiet

InitData ==
    /\ NoRequests
    /\ available = TRUE
    /\ hasOrch = FALSE
    /\ NovaQuiet
    /\ RestQuiet
    /\ app \in {"icda", "main"}
    /\ proc = [p \in Procs |-> IdleProc]
    /\ read = NoRead
    /\ used = [ops |-> 0, changes |-> 0]
    /\ IF app = "icda"
       THEN /\ sourceKind \in {"json", "postgresql", "mongodb"}
            /\ source \in {s \in Sources(sourceKind) : s.status = "ok"}
            /\ heap = [i \in ListIds |-> <<>>]
            /\ ds = NewDataSource
            /\ idx \in {NewIndexes(r) : r \in Steps \cup {"none"}}
            /\ im \in {NewIndexManager(a) : a \in BOOLEAN}
       ELSE /\ sourceKind = "json"
            /\ source \in {Source("ok", d, FALSE) : d \in Datasets}
                          \cup {Source("missing", <<>>, FALSE)}
            /\ LET list == IF source.status = "ok" THEN source.data ELSE MainDefaults
               IN  /\ heap = [i \in ListIds |-> IF i = 1 THEN list ELSE <<>>]
                   /\ ds = NewCustomerData(list)
            /\ idx = NewIndexes("none")
            /\ im = NewIndexManager(FALSE)

\* loads, reloads, rebuilds and changes of the source
NextRebuild ==
    \/ \E p \in Procs, op \in {"load", "reload", "reindex"} :
         Start(p, op) /\ UNCHANGED <<routerVars, novaVars, restVars>>
    \/ \E p \in Procs : Fetched(p) /\ UNCHANGED <<routerVars, novaVars, restVars>>
    \/ \E p \in Procs : CursorNext(p) /\ UNCHANGED <<routerVars, novaVars, restVars>>
    \/ \E p \in Procs : LockGranted(p) /\ UNCHANGED <<routerVars, novaVars, restVars>>
    \/ \E p \in Procs :
         Cleared(p) /\ UNCHANGED <<app, store, available, hasOrch, req, ncalls, novaVars, restVars>>
    \/ \E p \in Procs : VectorIndexed(p) /\ UNCHANGED <<routerVars, novaVars, restVars>>
    \/ \E p \in Procs : AddressVectorIndexed(p) /\ UNCHANGED <<routerVars, novaVars, restVars>>
    \/ ChangeSource /\ UNCHANGED <<routerVars, novaVars, restVars>>

\* the same with the requests that read
NextData ==
    \/ NextRebuild
    \/ \E state \in SearchStates : Search(state) /\ UNCHANGED <<routerVars, novaVars, restVars>>
    \/ ReadDone /\ UNCHANGED <<routerVars, novaVars, restVars>>

InitNova ==
    /\ app = "icda"
    /\ NoRequests
    /\ available = TRUE
    /\ hasOrch \in BOOLEAN
    /\ NovaQuiet
    /\ DataQuiet
    /\ RestQuiet

NextNova ==
    \/ Generate /\ UNCHANGED <<app, cache, store, req, ncalls, dataVars, restVars>>
    \/ Query /\ UNCHANGED <<app, cache, store, req, ncalls, dataVars, restVars>>
    \/ Return /\ UNCHANGED <<app, cache, store, req, ncalls, dataVars, restVars>>

vars == <<routerVars, novaVars, dataVars, restVars>>

Init == RouterInit /\ NovaQuiet /\ DataQuiet /\ RestQuiet

Next ==
    \/ \E r \in Reqs : RouteCall(r) /\ UNCHANGED <<novaVars, dataVars, restVars>>
    \/ \E r \in Reqs : RouteGuard(r) /\ UNCHANGED <<novaVars, dataVars, restVars>>
    \/ \E r \in Reqs : RouteCacheGot(r) /\ UNCHANGED <<novaVars, dataVars, restVars>>
    \/ \E r \in Reqs : RouteRouted(r) /\ UNCHANGED <<novaVars, dataVars, restVars>>
    \/ \E r \in Reqs : RouteRagDone(r) /\ UNCHANGED <<novaVars, dataVars, restVars>>
    \/ \E r \in Reqs : RouteNovaDone(r) /\ UNCHANGED <<novaVars, dataVars, restVars>>
    \/ \E r \in Reqs : RouteSaved(r) /\ UNCHANGED <<novaVars, dataVars, restVars>>
    \/ \E r \in Reqs : RouteCacheSet(r) /\ UNCHANGED <<novaVars, dataVars, restVars>>
    \/ \E r \in Reqs : ProcessQuery(r) /\ UNCHANGED <<novaVars, dataVars, restVars>>

\* the Router and process_query
Spec == Init /\ [][Next]_vars

\* the Router with collaborators that fail and callers that disconnect
NextAbort ==
    \/ Next
    \/ \E r \in Reqs : RouteRaised(r) /\ UNCHANGED <<novaVars, dataVars, restVars>>
    \/ \E r \in Reqs : RouteCancelled(r) /\ UNCHANGED <<novaVars, dataVars, restVars>>

SpecAbort == Init /\ [][NextAbort]_vars

\* the pure functions of the agents
InitAgents ==
    /\ app = "icda"
    /\ NoRequests
    /\ available = TRUE
    /\ hasOrch = FALSE
    /\ NovaQuiet
    /\ DataQuiet
    /\ RestQuiet

NextAgents ==
    \/ CallClassify /\ UNCHANGED <<routerVars, novaVars, dataVars, watchVars, orchVars>>
    \/ CallDetectFollowUp /\ UNCHANGED <<routerVars, novaVars, dataVars, watchVars, orchVars>>
    \/ CallExtractGeographic /\ UNCHANGED <<routerVars, novaVars, dataVars, watchVars, orchVars>>
    \/ CallMakeKey /\ UNCHANGED <<routerVars, novaVars, dataVars, watchVars, orchVars>>
    \/ CallBuildMessages /\ UNCHANGED <<routerVars, novaVars, dataVars, watchVars, orchVars>>
    \/ CallExtract /\ UNCHANGED <<routerVars, novaVars, dataVars, watchVars, orchVars>>
    \/ TakeResult /\ UNCHANGED <<routerVars, novaVars, dataVars, watchVars, orchVars>>

SpecAgents == InitAgents /\ [][NextAgents]_vars

\* the router over a JSON file source that was loaded, with the IndexManager
\* as its listener; one request is still to come
InitStale ==
    /\ app = "icda"
    /\ cache = [k \in Keys |-> Null]
    /\ store = [s \in SessionIds |-> <<>>]
    /\ req = [r \in Reqs |-> IdleReq]
    /\ ncalls = MaxCalls - 1
    /\ available = TRUE
    /\ hasOrch = TRUE
    /\ NovaQuiet
    /\ RestQuiet
    /\ sourceKind = "json"
    /\ source = Source("ok", <<CustA, CustB>>, FALSE)
    /\ heap = [i \in ListIds |-> IF i = 2 THEN source.data ELSE <<>>]
    /\ ds = [BuildIndexes(NewDataSource, source.data) EXCEPT !.customers = 2,
                !.metadata = BuildMetadata(source.data, "json_file")]
    /\ idx = NewIndexes("none")
    /\ im = NewIndexManager(TRUE)
    /\ proc = [p \in Procs |-> IdleProc]
    /\ read = NoRead
    /\ used = [ops |-> 0, changes |-> 0]

\* requests to the router while the file changes and is reloaded
NextStale ==
    \/ \E r \in Reqs : RouteCall(r) /\ UNCHANGED <<novaVars, dataVars, restVars>>
    \/ \E r \in Reqs : RouteGuard(r) /\ UNCHANGED <<novaVars, dataVars, restVars>>
    \/ \E r \in Reqs : RouteCacheGot(r) /\ UNCHANGED <<novaVars, dataVars, restVars>>
    \/ \E r \in Reqs : RouteRouted(r) /\ UNCHANGED <<novaVars, dataVars, restVars>>
    \/ \E r \in Reqs : RouteNovaDone(r) /\ UNCHANGED <<novaVars, dataVars, restVars>>
    \/ \E r \in Reqs : RouteSaved(r) /\ UNCHANGED <<novaVars, dataVars, restVars>>
    \/ \E r \in Reqs : RouteCacheSet(r) /\ UNCHANGED <<novaVars, dataVars, restVars>>
    \/ \E p \in Procs : Start(p, "reload") /\ UNCHANGED <<routerVars, novaVars, restVars>>
    \/ \E p \in Procs : LockGranted(p) /\ UNCHANGED <<routerVars, novaVars, restVars>>
    \/ \E p \in Procs :
         Cleared(p) /\ UNCHANGED <<app, store, available, hasOrch, req, ncalls, novaVars, restVars>>
    \/ \E p \in Procs : VectorIndexed(p) /\ UNCHANGED <<routerVars, novaVars, restVars>>
    \/ \E p \in Procs : AddressVectorIndexed(p) /\ UNCHANGED <<routerVars, novaVars, restVars>>
    \/ ChangeSource /\ UNCHANGED <<routerVars, novaVars, restVars>>

SpecStale == InitStale /\ [][NextStale]_vars

\* the reads of the data source: lookup, search and autocomplete
NextReads ==
    \/ CallLookup /\ UNCHANGED <<routerVars, novaVars, dataVars, watchVars, orchVars>>
    \/ CallSearch /\ UNCHANGED <<routerVars, novaVars, dataVars, watchVars, orchVars>>
    \/ CallAutocomplete /\ UNCHANGED <<routerVars, novaVars, dataVars, watchVars, orchVars>>
    \/ TakeResult /\ UNCHANGED <<routerVars, novaVars, dataVars, watchVars, orchVars>>

SpecReads == InitAgents /\ [][NextReads]_vars

\* the watcher over a JSON file source with the IndexManager as listener
InitWatch ==
    /\ NoRequests
    /\ available = TRUE
    /\ hasOrch = FALSE
    /\ NovaQuiet
    /\ AgentsQuiet
    /\ WatchQuiet
    /\ OrchQuiet
    /\ app = "icda"
    /\ sourceKind = "json"
    /\ source \in {s \in Sources("json") : s.status = "ok"}
    /\ heap = [i \in ListIds |-> <<>>]
    /\ ds = NewDataSource
    /\ idx \in {NewIndexes(r) : r \in {"none", "vector"}}
    /\ im \in {NewIndexManager(a) : a \in BOOLEAN}
    /\ proc = [p \in Procs |-> IdleProc]
    /\ read = NoRead
    /\ used = [ops |-> 0, changes |-> 0]

NextWatch ==
    \/ WatcherStart /\ UNCHANGED <<routerVars, novaVars, dataVars, agentVars, orchVars>>
    \/ WatcherStop /\ UNCHANGED <<routerVars, novaVars, dataVars, agentVars, orchVars>>
    \/ \E t \in Procs : LoopRun(t) /\ UNCHANGED <<routerVars, novaVars, dataVars, agentVars, orchVars>>
    \/ \E t \in Procs : LoopWake(t) /\ UNCHANGED <<routerVars, novaVars, agentVars, orchVars>>
    \/ \E t \in Procs :
         LoopCleared(t) /\ UNCHANGED <<app, store, available, hasOrch, req, ncalls, novaVars, agentVars, orchVars>>
    \/ \E t \in Procs : LoopVectorIndexed(t) /\ UNCHANGED <<routerVars, novaVars, agentVars, orchVars>>
    \/ \E t \in Procs : LoopReloaded(t) /\ UNCHANGED <<routerVars, novaVars, agentVars, orchVars>>
    \/ \E t \in Procs : LoopCancelled(t) /\ UNCHANGED <<routerVars, novaVars, agentVars, orchVars>>
    \/ WatchedSourceChanges /\ UNCHANGED <<routerVars, novaVars, agentVars, orchVars>>

SpecWatch == InitWatch /\ [][NextWatch]_vars

\* the steps of the loop tasks: the event loop wakes every sleep that is due
\* and every await of a reload returns
LoopStep ==
    \E t \in Procs :
        \/ LoopRun(t) /\ UNCHANGED <<routerVars, novaVars, dataVars, agentVars, orchVars>>
        \/ LoopWake(t) /\ UNCHANGED <<routerVars, novaVars, agentVars, orchVars>>
        \/ LoopCleared(t) /\ UNCHANGED <<app, store, available, hasOrch, req, ncalls, novaVars, agentVars, orchVars>>
        \/ LoopVectorIndexed(t) /\ UNCHANGED <<routerVars, novaVars, agentVars, orchVars>>
        \/ LoopReloaded(t) /\ UNCHANGED <<routerVars, novaVars, agentVars, orchVars>>
        \/ LoopCancelled(t) /\ UNCHANGED <<routerVars, novaVars, agentVars, orchVars>>

\* a poll that does not raise
PollStep ==
    \E t \in Procs :
        Polled(t, FALSE) /\ UNCHANGED <<routerVars, novaVars, agentVars, orchVars>>

\* a started watcher on a loaded file, with a listener that raises
\* registered before the IndexManager
InitPoll ==
    /\ NoRequests
    /\ available = TRUE
    /\ hasOrch = FALSE
    /\ NovaQuiet
    /\ AgentsQuiet
    /\ WatchQuiet
    /\ OrchQuiet
    /\ app = "icda"
    /\ sourceKind = "json"
    /\ source \in {s \in Sources("json") : s.status = "ok"}
    /\ heap = [i \in ListIds |-> <<>>]
    /\ ds = [NewDataSource EXCEPT !.listeners = <<"broken", "index_manager">>]
    /\ idx = NewIndexes("none")
    /\ im = NewIndexManager(TRUE)
    /\ proc = [p \in Procs |-> IdleProc]
    /\ read = NoRead
    /\ used = [ops |-> 0, changes |-> 0]

\* the loop tasks go on, and the errors of the polls are transient: a poll
\* that does not raise comes again and again
SpecPoll == InitPoll /\ [][NextWatch]_vars /\ WF_vars(LoopStep) /\ SF_vars(PollStep)

\* the Query Orchestrator; a stage that is ready or running goes on (each
\* stage is time-bounded)
InitOrch ==
    /\ app = "icda"
    /\ NoRequests
    /\ available = TRUE
    /\ hasOrch = TRUE
    /\ NovaQuiet
    /\ DataQuiet
    /\ AgentsQuiet
    /\ WatchQuiet
    /\ OrchQuiet

NextOrch ==
    \/ OrchProcess /\ UNCHANGED <<routerVars, novaVars, dataVars, agentVars, watchVars>>
    \/ \E s \in PipelineStages :
         StageStart(s) /\ UNCHANGED <<routerVars, novaVars, dataVars, agentVars, watchVars>>
    \/ \E s \in PipelineStages :
         StageFinish(s) /\ UNCHANGED <<routerVars, novaVars, dataVars, agentVars, watchVars>>
    \/ StageSkipped /\ UNCHANGED <<routerVars, novaVars, dataVars, agentVars, watchVars>>
    \/ OrchDone /\ UNCHANGED <<routerVars, novaVars, dataVars, agentVars, watchVars>>
    \/ QueryOrchestrated /\ UNCHANGED <<routerVars, novaVars, dataVars, agentVars, watchVars>>

SpecOrch == InitOrch /\ [][NextOrch]_vars /\ WF_vars(NextOrch)

\* the AI clients
SpecNova == InitNova /\ [][NextNova]_vars

\* the data source and the index manager
SpecRebuild == InitData /\ [][NextRebuild]_vars

\* the data source, the index manager and the requests that read them
SpecData == InitData /\ [][NextData]_vars

(***************************************************************************)
(* Claims about Router.route and process_query                             *)
(***************************************************************************)
Started(r) == req[r].pc \notin {"idle", "s_get"}

Done(r) == req[r].pc = "done"

\* the two messages a request appends to the session it was given
Exchange(c) == << <<"user", c.q>>, <<"assistant", c.response>> >>

\* C1: a request whose query the guardrail check matches has returned as soon
\* as its session was fetched, with the blocked message and blocked = true,
\* and has made no cache read or write, no session append or save and no
\* semantic-router, database-tool or AI call.
C1_BlockedShortCircuit ==
    \A r \in Reqs :
        (Started(r) /\ GuardrailsCheck(req[r].q) # Null) =>
            /\ Done(r)
            /\ req[r].resp.blocked
            /\ ~req[r].resp.cached
            /\ req[r].resp.response = GuardrailsCheck(req[r].q)
            /\ req[r].calls = {}
            /\ Len(req[r].session) = req[r].prior

\* C1 witness: a blocked response was returned by Router.route while the
\* cache held an entry
C1_Witness ==
    /\ app = "icda"
    /\ \E k \in Keys : cache[k] # Null
    /\ \E r \in Reqs : Done(r) /\ req[r].resp.blocked

\* C2: the cache is read only when bypass_cache is false and the session
\* fetched for the request holds no message; a request whose session holds a
\* message is never answered from the cache; a cache hit is returned before
\* any router, database or AI call and without a session write.
C2_CacheOnlyStateless ==
    \A r \in Reqs :
        /\ "cache_get" \in req[r].calls => ~req[r].bypass /\ req[r].prior = 0
        /\ Done(r) /\ req[r].prior > 0 => ~req[r].resp.cached
        /\ Done(r) /\ req[r].resp.cached =>
              /\ req[r].calls = {"cache_get"}
              /\ req[r].session = <<>>
              /\ req[r].resp.success /\ ~req[r].resp.blocked

\* C2 witness: a request on a session with prior messages was answered, not
\* from the cache, while the cache held an entry for its key
C2_Witness ==
    \E r \in Reqs :
        /\ Done(r) /\ req[r].prior > 0 /\ ~req[r].bypass
        /\ ~req[r].resp.blocked
        /\ cache[req[r].key] # Null

\* C3: a request of Router.route writes the cache only when the session it
\* was given held no message and now holds exactly the user and assistant
\* messages of this request; a request given a session with prior messages
\* never writes the cache, on the DATABASE and on the AI route.
C3_CacheWriteSingleTurn ==
    \A r \in Reqs :
        (app = "icda" /\ (req[r].pc = "cache_set" \/ "cache_set" \in req[r].calls)) =>
            /\ req[r].prior = 0
            /\ req[r].session = Exchange(req[r])
            /\ "save" \in req[r].calls

\* C3 witness: a request on a session with prior messages was answered and
\* saved and wrote no cache entry
C3_Witness ==
    \E r \in Reqs :
        /\ Done(r) /\ req[r].prior > 0
        /\ "save" \in req[r].calls /\ "cache_set" \notin req[r].calls
        /\ cache[req[r].key] = Null

\* C4: when the suggested tool succeeds the request is answered with route
\* database and that tool, its user and assistant messages are saved to the
\* session and the AI client is never called; when the tool fails the request
\* goes on to the AI path (route nova) and no text of the failed tool is
\* appended, saved or cached.
C4_DatabaseRoute ==
    \A r \in Reqs :
        /\ req[r].dbres = "ok" =>
              /\ req[r].pc \in {"save", "cache_set", "done"}
              /\ req[r].route = "database" /\ req[r].tool \in Tools
              /\ req[r].response = FormatDbResult(req[r].tool, req[r].q)
              /\ req[r].calls \cap {"rag", "nova", "ai"} = {}
              /\ Len(req[r].session) = req[r].prior + 2
              /\ SubSeq(req[r].session, req[r].prior + 1, req[r].prior + 2)
                    = Exchange(req[r])
              /\ Done(r) =>
                    /\ "save" \in req[r].calls
                    /\ req[r].resp.success
                    /\ req[r].resp.route = "database"
                    /\ req[r].resp.tool = req[r].tool
                    /\ req[r].resp.response = req[r].response
        /\ req[r].dbres = "fail" =>
              /\ req[r].pc \in {"rag", "nova", "save", "cache_set", "done"}
              /\ req[r].route = "nova" /\ req[r].tool = "none"
              /\ req[r].response # Null => Head(req[r].response) = "ai"
              /\ \A i \in 1..Len(req[r].session) :
                    i > req[r].prior => req[r].session[i] \in
                        {<<"user", req[r].q>>, <<"assistant", <<"ai">> \o req[r].q>>}
              /\ Done(r) => req[r].resp.route = "nova"

\* C4 witness: a tool failed and the request was answered by the AI path
C4_Witness ==
    \E r \in Reqs :
        Done(r) /\ req[r].dbres = "fail" /\ req[r].resp.success
                /\ "cache_set" \in req[r].calls

\* C11: every call of Router.route ends with a response object carrying
\* success, query, response, route, cached, blocked, tool and session_id, and
\* no call ends with an exception, whichever collaborator failed.
C11_AlwaysResponds ==
    \A r \in Reqs :
        /\ req[r].pc # "raised"
        /\ Done(r) =>
              DOMAIN req[r].resp = {"success", "query", "response", "route",
                                    "cached", "blocked", "tool", "session_id"}

\* C12: a request abandoned at one of its awaits has written nothing: it has
\* saved no session and set no cache entry.
C12_NoPartialWrite ==
    \A r \in Reqs :
        req[r].pc = "cancelled" =>
            /\ "save" \notin req[r].calls
            /\ "cache_set" \notin req[r].calls

\* C13: when two requests for one session id have both saved and returned,
\* the saved session holds the user and assistant messages of both, and at
\* most one of the two has written the cache as a single-turn request.
C13_NoLostTurn ==
    \A r \in Reqs, t \in Reqs :
        (/\ app = "icda" /\ r # t /\ Done(r) /\ Done(t)
         /\ req[r].sid = req[t].sid
         /\ "save" \in req[r].calls /\ "save" \in req[t].calls) =>
            /\ Len(store[req[r].sid]) >= 4
            /\ \E i \in 1..Len(store[req[r].sid]) - 1 :
                  SubSeq(store[req[r].sid], i, i + 1) = Exchange(req[r])
            /\ ~("cache_set" \in req[r].calls /\ "cache_set" \in req[t].calls)

(***************************************************************************)
(* Claims about NovaAgent.generate and NovaClient.query                    *)
(***************************************************************************)
\* a step in which generate (who = "generate") or query (who = "query") runs
CallStep(who) == nova = NoCall /\ nova'.who = who

\* an error message of the access class: it holds "Access", or "credentials"
\* in any case
AccessClass(m) ==
    \E i \in 1..Len(m) : m[i] \in {"Access", "credentials", "Credentials"}

\* a content without a non-empty text block
NoTextIn(content) ==
    \A i \in 1..Len(content) : content[i][1] = "text" => content[i][2] = ""

\* C5: a client marked unavailable stays unavailable; a generate or query call
\* made while its client is unavailable does not invoke the AI capability and
\* returns the fallback (generate) or a failure (query); a call in which the AI
\* capability raises an access-class error marks its client unavailable and
\* itself returns the fallback or a failure; any other error leaves the
\* availability of both clients as it was.
C5_AccessErrorSticks ==
    [][ /\ ~agentAvail => ~agentAvail'
        /\ ~available => ~available'
        /\ (CallStep("generate") /\ ~agentAvail) =>
              nova'.ai = 0 /\ nova'.out.model_used = "fallback"
        /\ (CallStep("query") /\ ~available) =>
              nova'.ai = 0 /\ ~nova'.out.success
        /\ (CallStep("generate") /\ nova'.raised = "client_error"
              /\ AccessClass(nova'.msg)) =>
              ~agentAvail' /\ nova'.out.model_used = "fallback"
        /\ (CallStep("query") /\ nova'.raised = "client_error"
              /\ AccessClass(nova'.msg)) =>
              ~available' /\ ~nova'.out.success
        /\ (CallStep("generate")
              /\ ~(nova'.raised = "client_error" /\ AccessClass(nova'.msg))) =>
              agentAvail' = agentAvail
        /\ (CallStep("query")
              /\ ~(nova'.raised = "client_error" /\ AccessClass(nova'.msg))) =>
              available' = available
        /\ CallStep("generate") => available' = available
        /\ CallStep("query") => agentAvail' = agentAvail
      ]_vars

\* C5 witness: generate was called after an access-class error had marked the
\* agent unavailable, and answered without invoking the AI capability
C5_Witness ==
    /\ nova.who = "generate" /\ ~nova.before /\ ~agentAvail
    /\ nova.ai = 0 /\ nova.out.model_used = "fallback"

\* C6: generate always returns a response; when the agent is unavailable or
\* anything raises (an access error, another client error, any exception) the
\* response has no tools, model_used "fallback", and its text is the static
\* message when the search found no record, else the template over
\* total_matches, the first 5 records at most, and "and N more" with
\* N = total_matches - 5 exactly when total_matches > 5.
C6_FallbackResponse ==
    nova.who = "generate" =>
        /\ nova.out.response_text.kind # "none"
        /\ nova.out.success
        /\ (~nova.before \/ nova.raised # "none") =>
              /\ nova.out.tools_used = <<>>
              /\ nova.out.model_used = "fallback"
              /\ IF nova.results = <<>>
                 THEN /\ nova.out.response_text.kind = "static"
                      /\ nova.out.response_text.text =
                            "AI features are not available. Please use direct search or autocomplete endpoints."
                 ELSE LET text == nova.out.response_text
                          n == IF Len(nova.results) < 5 THEN Len(nova.results) ELSE 5
                      IN  /\ text.kind = "fallback"
                          /\ text.total = nova.total
                          /\ Len(text.shown) = n
                          /\ \A i \in 1..n : text.shown[i] = nova.results[i]
                          /\ text.more = IF nova.total > 5 THEN nova.total - 5 ELSE 0

\* C6 witness: an access error on a search result of 6 records, 7 matches
C6_Witness ==
    /\ nova.who = "generate" /\ nova.raised = "client_error"
    /\ Len(nova.results) = 6 /\ nova.total = 7
    /\ nova.out.response_text.more = 2

\* C7: the text generate returns is never empty; when the AI capability
\* answered and neither its first turn nor its follow-up turn holds a
\* non-empty text block, the text is the sentinel "I couldn't generate a
\* response."; a successful query never carries an empty text.
C7_TextNeverEmpty ==
    /\ nova.who = "generate" =>
          /\ nova.out.response_text.text # ""
          /\ (nova.before /\ nova.raised = "none"
                /\ NoTextIn(nova.beh.t1.content) /\ NoTextIn(nova.beh.t2.content)) =>
                /\ nova.out.response_text.kind = "sentinel"
                /\ nova.out.response_text.text = "I couldn't generate a response."
    /\ (nova.who = "query" /\ nova.out.success) =>
          nova.out.response_text.text # ""

\* C7 witness: the AI capability requested a tool, the follow-up turn came
\* back with an empty text block, and generate returned the sentinel
C7_Witness ==
    /\ nova.who = "generate" /\ nova.ai = 2 /\ nova.raised = "none"
    /\ nova.beh.t2.content # <<>>
    /\ nova.out.response_text.kind = "sentinel"
    /\ nova.out.tools_used # <<>>

(***************************************************************************)
(* Claims about the index manager and the data source                      *)
(***************************************************************************)
\* the coroutines inside the rebuild steps of reindex_all
Rebuilding == {p \in Procs : proc[p].pc \in {"clear", "vec", "avec"}}

\* the states the loaded customers have
LoadedStates(list) == {Upper(list[i].state) : i \in 1..Len(list)}

\* C8: at most one coroutine is inside the rebuild steps of reindex_all (cache
\* clear, address index, ZIP database, vector index, address vector index),
\* and it holds the indexing lock; an overlapping reindex_all waits until the
\* running rebuild has finished.
C8_OneRebuildInFlight ==
    /\ Cardinality(Rebuilding) <= 1
    /\ Rebuilding # {} => im.locked
    /\ \A p \in Procs : proc[p].pc = "wait" =>
          \E i \in 1..Len(im.waiters) : im.waiters[i] = p

\* C8 witness: one rebuild is awaiting the vector index while another
\* reindex_all waits for the lock
C8_Witness ==
    \E p \in Procs, q \in Procs :
        proc[p].pc = "vec" /\ proc[q].pc = "wait" /\ im.locked

\* C9: a search that runs between the steps of loads and rebuilds finds
\* by_crid, by_state and the autocomplete indexes built from exactly the list
\* customers names, and the address index, ZIP database, vector index and
\* address vector index all built from one and the same list.
C9_OneGeneration ==
    (app = "icda" /\ read.op = "search") =>
        LET list == heap[ds.customers]
        IN  /\ ds.by_crid = ByCrid(list)
            /\ ds.by_state = ByState(list)
            /\ ds.address_index = AutoIndex(list, "address")
            /\ ds.name_index = AutoIndex(list, "name")
            /\ ds.city_index = AutoIndex(list, "city")
            /\ (im.auto_index /\ idx.raises = "none") =>
                  /\ idx.address = idx.zip
                  /\ idx.zip = idx.vector
                  /\ idx.vector = idx.avec

\* C10: a search by a state no loaded customer has fails with
\* "state_not_available" and lists the states, with their counts, of the
\* loaded customers; a search by a state some loaded customer has succeeds.
C10_StateNotAvailable ==
    read.op = "search" =>
        LET list == heap[ds.customers]
        IN  IF Upper(read.state) \in LoadedStates(list)
            THEN read.success
            ELSE /\ ~read.success
                 /\ read.error = "state_not_available"
                 /\ Range(read.available_states) = LoadedStates(list)
                 /\ read.state_counts = StateCounts(list)

(***************************************************************************)
(* Claims about the agents' pure functions                                 *)
(***************************************************************************)
\* the query holds a record-ID token: a word that starts with crid, in any
\* case, then digits, after nothing, one hyphen or one blank
IdToken(query) ==
    \E i \in 1..Len(query) :
        /\ Lower(query[i]) = "crid"
        /\ i = 1 \/ IsSpace(query[i - 1])
        /\ \/ i + 1 <= Len(query) /\ query[i + 1] \in Digits
           \/ i + 2 <= Len(query) /\ query[i + 1] \in {"-", " "}
                                  /\ query[i + 2] \in Digits

\* C14 as stated: a query with a record-ID token is classified LOOKUP with a
\* final confidence of at least 0.8, and of 0.95 (the token matches the strict
\* ID pattern), whatever the length of the query.
C14_IdLookup ==
    (pure.fn = "classify" /\ IdToken(pure.text)) =>
        /\ pure.out.primary_intent = "LOOKUP"
        /\ pure.out.confidence >= 800
        /\ pure.out.confidence = 950

\* C14 amended: a query with a record-ID token is classified LOOKUP with the
\* intent confidence 0.95 and a final confidence of at least 0.8: 0.95 for a
\* query of 3 to 20 words, 0.855 for fewer than 3 words, 0.807 for more than
\* 20 words.
C14_IdLookupRefined ==
    (pure.fn = "classify" /\ IdToken(pure.text)) =>
        /\ pure.out.primary_intent = "LOOKUP"
        /\ pure.out.intent_confidence = 9500
        /\ pure.out.confidence >= 800
        /\ pure.out.confidence =
              IF WordCount(pure.text) < 3 THEN 855
              ELSE IF WordCount(pure.text) > 20 THEN 807 ELSE 950

\* C14 witness: a record ID in a query of more than 20 words
C14_Witness ==
    /\ pure.fn = "classify" /\ IdToken(pure.text)
    /\ WordCount(pure.text) > 20
    /\ pure.out.confidence = 807

NotSpace(tok) == ~IsSpace(tok)

\* two texts with the same letters, digits and hyphens up to case
SameButCaseAndSpace(a, b) ==
    SelectSeq(LowerText(a), NotSpace) = SelectSeq(LowerText(b), NotSpace)

\* a text without its leading and trailing whitespace
Core(a) ==
    LET at == {i \in 1..Len(a) : ~IsSpace(a[i])}
    IN  IF at = {} THEN <<>>
        ELSE SubSeq(a, CHOOSE i \in at : \A j \in at : i <= j,
                       CHOOSE i \in at : \A j \in at : i >= j)

\* two texts that are the same up to case between their first and last
\* tokens that are not whitespace
SameButCaseAndOuterSpace(a, b) ==
    /\ Len(Core(a)) = Len(Core(b))
    /\ \A i \in 1..Len(Core(a)) : Lower(Core(a)[i]) = Lower(Core(b)[i])

\* C16 as stated: two texts that differ only in letter case or in whitespace
\* have the same cache key.
C16_KeyIgnoresCaseAndSpace ==
    (pure.fn = "make_key" /\ SameButCaseAndSpace(pure.text, pure.other)) =>
        pure.out.key = pure.out.other

\* C16 amended: two texts that differ only in letter case or in leading and
\* trailing whitespace have the same cache key.
C16_KeyIgnoresCaseAndOuterSpace ==
    (pure.fn = "make_key" /\ SameButCaseAndOuterSpace(pure.text, pure.other)) =>
        pure.out.key = pure.out.other

\* C16 witness: "Find CRID-1" and "find crid-1 " have one key
C16_Witness ==
    /\ pure.fn = "make_key"
    /\ pure.text = <<"Find", " ", "CRID", "-", "1">>
    /\ pure.other = <<"find", " ", "crid", "-", "1", " ">>
    /\ pure.out.key = pure.out.other

\* C17: a text made of a state's full name, alone or after words that hold no
\* two-letter code, yields the code the table gives the name, which is what
\* the same text with the code in place of the name yields.
C17_NameRoundTrip ==
    \A n \in 1..Len(STATE_NAMES), p \in {<<>>, <<"customers", " ", "in", " ">>} :
        (pure.fn = "extract_geographic" /\ pure.text = p \o STATE_NAMES[n][1]) =>
            /\ pure.out.state = STATE_NAMES[n][2]
            /\ pure.out.state =
                  ExtractGeographic(pure.history, p \o <<STATE_NAMES[n][2]>>)

(***************************************************************************)
(* Claims about the DataSourceWatcher                                      *)
(***************************************************************************)
\* the tasks whose loop can still poll or reload
Live == {t \in Procs : loops[t].pc \notin {"none", "ended"} /\ ~loops[t].cancel}

\* C18: stop may be called any number of times, and once stop has returned
\* no reload or re-index started by the watch loop is still in progress or
\* was left half-done.
C18_StopWaits ==
    ~watcher.running =>
        \A t \in Procs : loops[t].pc # "reload" /\ ~loops[t].aborted

\* C19: after any sequence of start and stop at most one watch loop is live,
\* and it is the task the running watcher holds: a start while running makes
\* no second loop, no loop of an earlier start polls or reloads after a stop
\* followed by a start, and no loop polls or reloads after the last stop.
C19_OneLiveLoop ==
    [][/\ Cardinality(Live') <= 1
       /\ \A t \in Live' : watcher'.running /\ watcher'.task = t
       /\ \A t \in Procs :
            (\/ loops'[t].tick # loops[t].tick
             \/ (proc'[t] # proc[t] /\ loops'[t].pc # "ended"))
                => watcher.running /\ watcher.task = t]_vars

\* a stop followed by a start: the loop of the first start was cancelled and
\* has ended, the loop of the second start sleeps or reloads
C19_Witness ==
    /\ watcher.running
    /\ watcher.calls >= 3
    /\ \E t \in Procs : loops[t].pc \in {"sleep", "reload"} /\ t = watcher.task
    /\ \E u \in Procs : loops[u].pc = "ended" /\ loops[u].cancel


(***************************************************************************)
(* Claims about the Query Orchestrator                                     *)
(***************************************************************************)
\* the stages with a record in the trace
RecordedStages ==
    {pipeline.trace.stages[i].agent : i \in 1..Len(pipeline.trace.stages)}

\* C20: a stage failure never aborts the pipeline: a failed stage is in the
\* trace with success=false and an error, every later stage still starts,
\* with the failed stage's default output, the trace has exactly one record
\* per stage executed or skipped, and the pipeline always reaches DONE.
C20_FailureNeverAborts ==
    /\ [](/\ Len(pipeline.trace.stages) = Cardinality(DOMAIN pipeline.out)
          /\ RecordedStages = DOMAIN pipeline.out
          /\ pipeline.started \ DOMAIN pipeline.out # {} => pipeline.pc = "run"
          /\ \A i \in 1..Len(pipeline.trace.stages) :
               LET st == pipeline.trace.stages[i] IN
               /\ st.success = (pipeline.out[st.agent] = "output")
               /\ ~st.success => st.error # Null /\ st.output = "default"
          /\ \A s \in DOMAIN pipeline.got :
               \A b \in Before(s) : pipeline.got[s][b] = pipeline.out[b]
          /\ pipeline.pc \in {"DONE", "returned"} =>
               /\ RecordedStages = PipelineStages
               /\ pipeline.started = PipelineStages)
    /\ (pipeline.pc = "run") ~> (pipeline.pc = "DONE")

\* the pipeline is DONE after a stage before the last one failed and with the
\* knowledge stage skipped
C20_Witness ==
    /\ pipeline.pc = "DONE"
    /\ ~pipeline.knowledge
    /\ pipeline.out["PARSE"] = "default"
    /\ pipeline.got["RESOLVE"]["PARSE"] = "default"
    /\ Len(pipeline.trace.stages) = 8


\* the place of a stage in the order INTENT, CONTEXT, PARSE, RESOLVE,
\* {SEARCH, KNOWLEDGE}, GENERATE, ENFORCE
StageOrder(s) ==
    CASE s = "INTENT" -> 1
      [] s = "CONTEXT" -> 2
      [] s = "PARSE" -> 3
      [] s = "RESOLVE" -> 4
      [] s \in {"SEARCH", "KNOWLEDGE"} -> 5
      [] s = "GENERATE" -> 6
      [] OTHER -> 7

\* C21: a stage has started only when every stage placed before it in the
\* order INTENT, CONTEXT, PARSE, RESOLVE, {SEARCH, KNOWLEDGE}, GENERATE,
\* ENFORCE has finished, with its output or degraded to its default output;
\* in particular GENERATE starts after both SEARCH and KNOWLEDGE. SEARCH and
\* KNOWLEDGE do not wait for each other.
C21_StageOrder ==
    \A s \in pipeline.started :
        \A b \in PipelineStages :
            StageOrder(b) < StageOrder(s) =>
                /\ b \in DOMAIN pipeline.out
                /\ pipeline.out[b] \in {"output", "default"}

\* SEARCH and KNOWLEDGE run at the same time: both have started after RESOLVE
\* and neither has finished
C21_Witness ==
    /\ {"SEARCH", "KNOWLEDGE"} \subseteq pipeline.started
    /\ DOMAIN pipeline.out = {"INTENT", "CONTEXT", "PARSE", "RESOLVE"}


(***************************************************************************)
(* Claims about the Response Generator                                     *)
(***************************************************************************)
\* the tools the first turn of the call that just ran requested
Requested == ToolUses(nova.beh.t1.content)

IsPrefix(a, b) == Len(a) <= Len(b) /\ a = SubSeq(b, 1, Len(a))

Replayed == SubSeq(pure.out.messages, 1, Len(pure.out.messages) - 1)

\* message i of a history has a text block
HasText(history, i) == \E k \in 1..Len(history[i].content) : history[i].content[k][1] = "text"

\* the list is the current query as a user message after some of the last n
\* messages of the history, in their order, each with its text blocks only
\* and none without a text block
TextWindow(n) ==
    LET msgs == pure.out.messages
        history == pure.history
        first == IF Len(history) > n THEN Len(history) - n + 1 ELSE 1
        kept == {i \in first..Len(history) : HasText(history, i)}
    IN  /\ msgs[Len(msgs)] = [role |-> "user", content |-> << <<"text", "q">> >>]
        /\ Len(Replayed) = Cardinality(kept)
        /\ \A j \in 1..Len(Replayed) :
             \E i \in kept :
                /\ Cardinality({x \in kept : x <= i}) = j
                /\ Replayed[j].role = history[i].role
                /\ \A k \in 1..Len(Replayed[j].content) : Replayed[j].content[k][1] = "text"
                /\ Len(Replayed[j].content) =
                     Cardinality({k \in 1..Len(history[i].content) :
                                     history[i].content[k][1] = "text"})

\* C23 (as claimed): every message list sent to the AI capability, by the
\* Response Generator and by the simple mode, is the current query after at
\* most the last 6 history messages, text blocks only, messages without text
\* dropped.
C23_LastSixTextOnly ==
    pure.fn \in {"build_messages", "simple_messages"} =>
        /\ Len(Replayed) <= 6
        /\ TextWindow(6)

\* C23 (amended): the Response Generator's list is the current query after at
\* most the last 6 history messages, text blocks only, messages without text
\* dropped; the simple mode's list replays, in the same way, every message of
\* the history it is given, not only the last 6.
C23_TextOnlyWindow ==
    /\ pure.fn = "build_messages" => Len(Replayed) <= 6 /\ TextWindow(6)
    /\ pure.fn = "simple_messages" => TextWindow(Len(pure.history))

\* the Response Generator built its list on a history of 7 messages: the
\* oldest is left out and so is a message of the window that has no text
C23_Witness ==
    /\ pure.fn = "build_messages"
    /\ Len(pure.history) = 7
    /\ HasText(pure.history, 1)
    /\ \E i \in 2..7 : ~HasText(pure.history, i)
    /\ \E i \in 2..7 : Len(pure.history[i].content) = 2
    /\ Len(Replayed) = 5


(***************************************************************************)
(* Claims about the classifier                                             *)
(***************************************************************************)
\* the query as classify sees it
Classified == Strip(LowerText(pure.text))

\* the order in which _detect_intent is claimed to test the categories
PrimaryOrder ==
    <<"LOOKUP", "STATS", "COMPARISON", "ANALYSIS", "RECOMMENDATION", "SEARCH">>

\* the categories whose pattern tuple matches the classified query, in an order
Matching(order) == SelectSeq(order, LAMBDA i : MatchIntent(i, Classified))

\* the base confidence claimed for an intent, in ten-thousandths
BaseConfidence(intent) ==
    CASE intent = "LOOKUP" -> IF StrictCrid(Classified) THEN 9500 ELSE 8000
      [] intent = "STATS" -> 8500
      [] intent = "COMPARISON" -> 8000
      [] intent = "ANALYSIS" -> 8000
      [] intent = "RECOMMENDATION" -> 7500
      [] OTHER -> 8500

\* C24: the primary intent is the first category in the order LOOKUP, STATS,
\* COMPARISON, ANALYSIS, RECOMMENDATION, SEARCH whose pattern set matches the
\* query, with the base confidence 0.95 or 0.8 (LOOKUP with or without a
\* record ID), 0.85, 0.8, 0.8, 0.75, 0.85; when none matches it is SEARCH with
\* the base confidence 0.6.
C24_FirstMatchWins ==
    pure.fn = "classify" =>
        IF Matching(PrimaryOrder) = <<>>
        THEN pure.out.primary_intent = "SEARCH" /\ pure.out.intent_confidence = 6000
        ELSE /\ pure.out.primary_intent = Matching(PrimaryOrder)[1]
             /\ pure.out.intent_confidence = BaseConfidence(Matching(PrimaryOrder)[1])

\* a query that matches the patterns of COMPARISON, ANALYSIS, RECOMMENDATION
\* and SEARCH and of no category before them is a COMPARISON
C24_Witness ==
    /\ pure.fn = "classify"
    /\ Matching(PrimaryOrder) = <<"COMPARISON", "ANALYSIS", "RECOMMENDATION", "SEARCH">>
    /\ pure.out.primary_intent = "COMPARISON"
    /\ pure.out.intent_confidence = 8000

\* C25: when the query matches the pattern sets of more than one category
\* the confidence is raised by 0.1, capped at 1.0, before the length
\* multipliers (x0.9 under 3 words, x0.85 over 20 words) and the rounding to
\* 3 decimals; the final value lies in [0, 1].
C25_BoostOnSeveralMatches ==
    pure.fn = "classify" =>
        LET boosted == IF Len(Matching(PrimaryOrder)) > 1
                       THEN Min(pure.out.intent_confidence + 1000, 10000)
                       ELSE pure.out.intent_confidence
            short == IF WordCount(Classified) < 3 THEN (boosted * 9) \div 10 ELSE boosted
            long == IF WordCount(Classified) > 20 THEN (short * 85) \div 100 ELSE short
        IN  /\ pure.out.confidence = Round3(long)
            /\ pure.out.confidence \in 0..1000

\* the categories other than the primary that match, in an order
OtherMatching(order) ==
    SelectSeq(Matching(order), LAMBDA i : i # pure.out.primary_intent)

\* a list of the first two (at most) of `all`, without the primary intent and
\* without duplicates
FirstTwoOf(list, all) ==
    /\ Len(list) <= 2
    /\ Len(list) = Min(2, Len(all))
    /\ \A k \in 1..Len(list) : list[k] = all[k] /\ list[k] # pure.out.primary_intent
    /\ \A k, l \in 1..Len(list) : list[k] = list[l] => k = l

\* C26 (as claimed): the secondary intents are the first two of the other
\* matching categories in the order of the primary-intent detection.
C26_SecondaryInPrimaryOrder ==
    pure.fn = "classify" =>
        FirstTwoOf(pure.out.secondary_intents, OtherMatching(PrimaryOrder))

\* C26 (amended): the secondary intents are the first two of the other
\* matching categories in the order in which the pattern sets are declared,
\* LOOKUP, STATS, SEARCH, ANALYSIS, COMPARISON, RECOMMENDATION; the list never
\* holds the primary intent, a duplicate or more than 2 entries.
C26_SecondaryInDeclarationOrder ==
    pure.fn = "classify" =>
        FirstTwoOf(pure.out.secondary_intents,
                   OtherMatching(<<"LOOKUP", "STATS", "SEARCH", "ANALYSIS",
                                   "COMPARISON", "RECOMMENDATION">>))

\* a STATS query that also matches SEARCH, COMPARISON and ANALYSIS: SEARCH and
\* ANALYSIS are its secondary intents
C26_Witness ==
    /\ pure.fn = "classify"
    /\ pure.out.primary_intent = "STATS"
    /\ Matching(PrimaryOrder) = <<"STATS", "COMPARISON", "ANALYSIS", "SEARCH">>
    /\ pure.out.secondary_intents = <<"SEARCH", "ANALYSIS">>

InList(x, list) == \E k \in 1..Len(list) : list[k] = x

\* C27: the domain list is never empty and has no duplicates; CUSTOMER is in
\* it whenever the primary intent is LOOKUP, SEARCH or STATS and whenever no
\* other domain is; STATS is in it whenever the primary intent is STATS;
\* ADDRESS and KNOWLEDGE are in it exactly when their own patterns match.
C27_Domains ==
    pure.fn = "classify" =>
        LET d == pure.out.domains IN
        /\ d # <<>>
        /\ \A k, l \in 1..Len(d) : d[k] = d[l] => k = l
        /\ pure.out.primary_intent \in {"LOOKUP", "SEARCH", "STATS"} => InList("CUSTOMER", d)
        /\ ~(InList("ADDRESS", d) \/ InList("KNOWLEDGE", d) \/ InList("STATS", d))
              => InList("CUSTOMER", d)
        /\ pure.out.primary_intent = "STATS" => InList("STATS", d)
        /\ InList("ADDRESS", d) <=> MatchAddress(Classified)
        /\ InList("KNOWLEDGE", d) <=> MatchKnowledge(Classified)

\* a COMPARISON query that matches no domain pattern falls back to CUSTOMER
C27_Witness ==
    /\ pure.fn = "classify"
    /\ pure.out.primary_intent = "COMPARISON"
    /\ ~MatchAddress(Classified) /\ ~MatchKnowledge(Classified)
    /\ pure.out.domains = <<"CUSTOMER">>


(***************************************************************************)
(* Claims about the Context Extractor                                      *)
(***************************************************************************)
\* C28: is_follow_up is true if and only if the lower-cased query matches a
\* referential phrase pattern, whatever the history, or the query has at most
\* 3 words and the history is not empty.
C28_FollowUpIff ==
    pure.fn = "detect_follow_up" =>
        (pure.out.is_follow_up <=>
            \/ MatchFollowUp(LowerText(pure.text))
            \/ WordCount(pure.text) <= 3 /\ pure.history # <<>>)

\* The failures of the history fetch: no session id, no session store, no
\* such session, or an exception of the store
FetchFails ==
    pure.session_id = "" \/ pure.manager \in {"absent", "none", "raises"}

StatesIn(text) ==
    {c \in VALID_STATES :
        \E i \in 1..Len(text) :
            text[i] = c /\ BoundaryBefore(text, i) /\ BoundaryAfter(text, i)}
    \cup {STATE_NAMES[n][2] : n \in {m \in 1..Len(STATE_NAMES) :
                                        NameIn(STATE_NAMES[m][1], LowerText(text))}}

\* the ZIP codes a text contains
ZipsIn(text) ==
    {z \in ZipTokens :
        \E i \in 1..Len(text) :
            text[i] = z /\ BoundaryBefore(text, i) /\ BoundaryAfter(text, i)}

\* the texts of the call in their order: the current query, then the history
\* from the newest message to the oldest
Searched == AllText(pure.history, pure.text)

\* text i is the first of the searched texts that contains a state, a ZIP code
FirstWithState(i) ==
    StatesIn(Searched[i]) # {} /\ \A j \in 1..(i - 1) : StatesIn(Searched[j]) = {}

FirstWithZip(i) ==
    ZipsIn(Searched[i]) # {} /\ \A j \in 1..(i - 1) : ZipsIn(Searched[j]) = {}

\* C30: over the texts in the order current query, then history from newest
\* to oldest, the resulting state is a state of the first text that contains
\* any state (none when no text contains one), so that a state of the current
\* query is never replaced by one of the history, nor a state of a newer
\* message by one of an older message; and the same for the ZIP code.
C30_FirstFoundWins ==
    pure.fn = "extract_geographic" =>
        /\ \A i \in DOMAIN Searched :
              FirstWithState(i) => pure.out.state \in StatesIn(Searched[i])
        /\ (\A i \in DOMAIN Searched : StatesIn(Searched[i]) = {})
              => pure.out.state = ""
        /\ \A i \in DOMAIN Searched :
              FirstWithZip(i) => pure.out.zip_code \in ZipsIn(Searched[i])
        /\ (\A i \in DOMAIN Searched : ZipsIn(Searched[i]) = {})
              => pure.out.zip_code = ""

(***************************************************************************)
(* Claims about the reads of the data source                               *)
(***************************************************************************)
\* the keys of the CRID index the call reads
CridKeys == {pure.customers[i].crid : i \in 1..Len(pure.customers)}

\* the identifier of the call padded to a width, its prefix in upper case
Padded(w) == <<UpperCrid(pure.text)[1]>> \o ZFill(Tail(pure.text), w)

\* C31: a record stored under a key of six zero-padded digits is returned by
\* the lookup of the same number with the prefix in any case and any number
\* of leading zeros up to six digits; and lookup returns NotFound exactly when
\* neither the 6-, 5- or 3-digit padded form nor the identifier as given
\* (case apart) is a key of the index.
C31_LookupPadding ==
    pure.fn = "lookup" =>
        /\ \A k \in CridKeys :
              (/\ Len(k) = 7
               /\ Len(pure.text) <= 7
               /\ Padded(6) = k)
              => pure.out.success /\ pure.out.data[1].crid = k
        /\ ~pure.out.success <=>
              /\ \A w \in {6, 5, 3} : Padded(w) \notin CridKeys
              /\ UpperCrid(pure.text) \notin CridKeys

\* "crid-07" finds the record stored under CRID-000007
C31_Witness ==
    /\ pure.fn = "lookup"
    /\ pure.text = <<"crid-", "0", "7">>
    /\ pure.out.success
    /\ pure.out.data[1].crid = <<"CRID-", "0", "0", "0", "0", "0", "7">>

\* C36: the lookup of an identifier that is itself a key of the CRID index
\* returns the record stored under that key, also when another key of the
\* index is a differently zero-padded form of the same number.
C36_ExactKeyWins ==
    (pure.fn = "lookup" /\ pure.text \in CridKeys) =>
        pure.out.success /\ pure.out.data[1].crid = pure.text

\* the widths, of 6, 5 and 3, at which the padded identifier is a key
WidthsStored == {w \in {6, 5, 3} : Padded(w) \in CridKeys}

\* C36 as amended: the lookup of an identifier that is itself a key succeeds,
\* and returns the record stored under that key unless the 6-, 5- or 3-digit
\* padded form of the number is a key too: then it returns the record stored
\* under the widest of these forms.
C36_WidestPaddedKeyWins ==
    (pure.fn = "lookup" /\ pure.text \in CridKeys) =>
        /\ pure.out.success
        /\ pure.out.data[1].crid =
              IF WidthsStored = {} THEN pure.text
              ELSE Padded(CHOOSE w \in WidthsStored : \A v \in WidthsStored : v <= w)

\* CRID-7 is looked up in an index that holds CRID-7, CRID-007 and
\* CRID-00007: the record of CRID-00007 is returned
C36_Witness ==
    /\ pure.fn = "lookup"
    /\ pure.text = <<"CRID-", "7">>
    /\ CridKeys = {<<"CRID-", "7">>, <<"CRID-", "0", "0", "7">>,
                   <<"CRID-", "0", "0", "0", "0", "7">>}
    /\ pure.out.data[1].crid = <<"CRID-", "0", "0", "0", "0", "7">>

\* the records of the call's customer list that match its filters, in the
\* order of the data
Matches ==
    SelectSeq(pure.customers,
              LAMBDA c : /\ pure.text[1] # "" => Upper(c.state) = Upper(pure.text[1])
                         /\ pure.text[2] # "" => CityMatches(pure.text[2], c.city))

\* C32: a successful search returns as total the number of all the records
\* that match the filters and as data the first records of that list in data
\* order, no more than total; when a limit is supplied, 0 included, data has
\* at most limit records and at most the global maximum of 100.
C32_SearchWithinLimit ==
    (pure.fn = "search" /\ pure.out.success) =>
        /\ pure.out.total = Len(Matches)
        /\ Len(pure.out.data) <= pure.out.total
        /\ pure.out.data = SubSeq(Matches, 1, Len(pure.out.data))
        /\ pure.limit # <<>> =>
              /\ Len(pure.out.data) <= pure.limit[1]
              /\ Len(pure.out.data) <= GLOBAL_MAX

\* the lowercased values of the call's field that start with the lowercased
\* prefix, in sorted order; for the city each value once
Completions ==
    LET values == [i \in 1..Len(AutoIndex(pure.customers, pure.field)) |->
                      AutoIndex(pure.customers, pure.field)[i][1]]
        F[i \in 0..Len(values)] ==
            IF i = 0 THEN <<>>
            ELSE IF ~StartsWith(values[i], LowerStrip(pure.text[1])) THEN F[i - 1]
            ELSE IF pure.field = "city" /\ values[i] \in Range(F[i - 1]) THEN F[i - 1]
            ELSE Append(F[i - 1], values[i])
    IN  F[Len(values)]

\* C33: autocomplete for a known field and a non-empty prefix always succeeds
\* and returns exactly the first min(limit, k) of the k indexed values that
\* start with the lowercased prefix, in sorted order (for the city: distinct
\* cities); when nothing matches, also when no record has the field, it
\* succeeds with count 0.
C33_AutocompletePrefix ==
    (/\ pure.fn = "autocomplete"
     /\ pure.field \in {"address", "name", "city"}
     /\ LowerStrip(pure.text[1]) # "") =>
        /\ pure.out.success
        /\ pure.out.count = Min(pure.limit[1], Len(Completions))
        /\ [i \in 1..Len(pure.out.data) |-> LowerValue(pure.out.data[i].value)]
              = SubSeq(Completions, 1, Min(pure.limit[1], Len(Completions)))

(***************************************************************************)
(* Claims about the data source and its indexes                            *)
(***************************************************************************)
\* the responses a request can compute from the records the indexes hold now
AnswersNow ==
    {FormatDbResult(t, Strip(q)) : t \in Tools, q \in RouteQueries}
    \cup {AiResponse(Strip(q)) : q \in RouteQueries}

\* the file was loaded as it is now and a re-index of the loaded list has
\* completed: no load or re-index is in progress, and the last index of a
\* re-index was built from the list the data source holds
ReindexedAfterChange ==
    /\ \A p \in Procs : proc[p].pc = "idle"
    /\ source.status = "ok" /\ ~source.newer
    /\ heap[ds.customers] = source.data
    /\ idx.avec = heap[ds.customers]

\* C34: once the re-index that a change of the data triggered has completed,
\* the cache holds no response computed from the data of before the change,
\* also when requests were in flight between computing their response and
\* writing it to the cache during the reload and the cache clear.
C34_NoStaleCache ==
    ReindexedAfterChange =>
        \A k \in Keys : cache[k] = Null \/ cache[k] \in AnswersNow


\* no load is between two of its awaits
LoadsSettled == \A p \in Procs : proc[p].pc \notin {"fetch", "cursor"}

\* C35: after every outcome of a load or reload the derived structures agree
\* with the customers list: by_crid, by_state and the autocomplete indexes
\* are those of customers, and metadata.total_records and
\* metadata.state_counts are computed from that list
C35_DerivedAgree ==
    (app = "icda" /\ LoadsSettled) =>
        LET list == heap[ds.customers]
        IN  /\ ds.by_crid = ByCrid(list)
            /\ ds.by_state = ByState(list)
            /\ ds.address_index = AutoIndex(list, "address")
            /\ ds.name_index = AutoIndex(list, "name")
            /\ ds.city_index = AutoIndex(list, "city")
            /\ ds.metadata.total_records = Len(list)
            /\ ds.metadata.state_counts = StateCounts(list)


\* the entry of stats.index_errors for each step of a rebuild
ErrorOf ==
    [cache |-> "Cache clear failed", address |-> "Address index",
     zip |-> "ZIP database", vector |-> "Vector index",
     avec |-> "Address vector index"]

\* a coroutine is inside the lock of reindex_all
InRebuild(p) == proc[p].pc \in {"clear", "vec", "avec"}

\* reindex_all of coroutine p returns in this step
RebuildReturns(p) == proc[p].pc = "avec" /\ proc'[p].pc = "idle"

\* a step of a load or reload, no reindex_all called directly
OnlyLoads == \A p \in Procs : proc[p].op # "reindex" /\ proc'[p].op # "reindex"

\* reindex_all returns with the step that failed, if any, as the one entry
\* of stats.index_errors and every other index built from its customers (a
\* MongoDB load appends to the list it was given while the rebuild reads it,
\* so there each index holds the list as it was at its step)
StepsAllRan ==
    \A p \in Procs :
        RebuildReturns(p) =>
            /\ im'.stats.index_errors =
                  IF idx.raises = "none" THEN <<>> ELSE <<ErrorOf[idx.raises]>>
            /\ \A s \in {"address", "zip", "vector", "avec"} \ {idx.raises} :
                  IF sourceKind = "mongodb"
                  THEN \E n \in 0..Len(heap[proc[p].arg]) :
                          idx'[s] = SubSeq(heap[proc[p].arg], 1, n)
                  ELSE idx'[s] = heap[proc[p].arg]

\* on_data_changed with auto_index off
AutoIndexOff == (~im.auto_index /\ OnlyLoads) => UNCHANGED <<idx, cache, im>>

\* C37: when reindex_all returns, the step that failed, if any, is the one
\* entry of stats.index_errors and every other index holds the customers
\* given; the lock is held only while a coroutine is inside the rebuild, so
\* a later re-index can start; and with auto_index off a load or reload
\* changes no index, cache or stats
C37_StepFailuresRecorded ==
    /\ [](im.locked <=> \E p \in Procs : InRebuild(p))
    /\ [][StepsAllRan /\ AutoIndexOff]_vars

\* C37 witness: a rebuild whose vector index raised has returned with the
\* error recorded, the address vector index built and the lock free
C37_Witness ==
    /\ idx.raises = "vector"
    /\ \A p \in Procs : proc[p].pc = "idle"
    /\ im.stats.index_errors = <<"Vector index">>
    /\ idx.avec # <<>> /\ idx.vector = <<>>
    /\ ~im.locked


\* load() of the file ran in this step, called directly or by reload():
\* self._customers names a new list
FileLoaded == sourceKind = "json" /\ ds'.customers # ds.customers

\* C38: each modification of the file causes at most one reload and one
\* notification of the listeners: once the file has been loaded,
\* check_for_changes is false (until the file is modified again), also when
\* the file could not be parsed
C38_OneReloadPerChange == [][FileLoaded => ~CheckForChanges']_vars


\* a poll that raised leaves its task asleep for the next poll
ErrorKeepsLoop ==
    \A t \in Procs :
        (loops'[t].raised /\ loops'[t].tick # loops[t].tick) => loops'[t].pc = "sleep"

\* a reload of the loop that loaded the file reaches the IndexManager's
\* on_data_changed, whatever the listeners before it did
AllListenersNotified ==
    \A t \in Procs :
        (loops[t].pc = "sleep" /\ FileLoaded /\ im.auto_index) =>
            proc'[t].pc = "clear"

\* the watcher is running and the file was modified since the last load
ChangePending == watcher.running /\ source.status = "ok" /\ source.newer

\* the modified file is loaded (or the watcher was stopped, or the file was
\* removed or damaged since)
ChangeReloaded ==
    \/ ~watcher.running
    \/ source.status # "ok"
    \/ ~source.newer /\ heap[ds.customers] = source.data

Writes == {"add", "save", "cache_set"}

\* nova.query of request r returned in this step with success false: the
\* request ends here, or the client is unavailable when the call returns
\* (it was, or an access error has just made it so)
AiPathFails(r) ==
    /\ req[r].pc = "nova"
    /\ \/ req'[r].pc = "done"
       \/ req'[r].pc # "nova" /\ ~available'

\* process_query answered request r in this step from the AI client
AiAsked(r) ==
    /\ app = "main"
    /\ req'[r] # req[r]
    /\ ~req'[r].resp.blocked /\ ~req'[r].resp.cached

\* C40: when the AI path of Router.route fails the response has success
\* false and route nova, and the request has changed neither the session nor
\* the cache: no message was appended or saved and no entry written; and
\* process_query writes the cache only when the AI result succeeded
C40_FailedAiWritesNothing ==
    [][\A r \in Reqs :
         /\ AiPathFails(r) =>
               /\ req'[r].pc = "done"
               /\ ~req'[r].resp.success /\ req'[r].resp.route = "nova"
               /\ req'[r].calls \cap Writes = {}
               /\ Len(req'[r].session) = req'[r].prior
               /\ UNCHANGED <<cache, store>>
         /\ AiAsked(r) =>
               /\ req'[r].resp.success <=> "cache_set" \in req'[r].calls
               /\ ~available => ~req'[r].resp.success
               /\ ~req'[r].resp.success => UNCHANGED cache]_vars

\* C40 witness: a request of Router.route ended on a failure of the AI
\* client that was asked, with nothing written
C40_Witness ==
    \E r \in Reqs :
        /\ app = "icda"
        /\ req[r].pc = "done"
        /\ ~req[r].resp.success /\ req[r].resp.route = "nova"
        /\ "ai" \in req[r].calls
        /\ req[r].calls \cap Writes = {}
        /\ store[req[r].sid] = <<>> /\ cache[req[r].key] = Null

====
